---- MODULE Spec2Model ----
(***************************************************************************)
(* Resilience and dispatch layer of the image-gen server: provider         *)
(* selection (services/providerSelector), provider registry and default    *)
(* chain (Config), the generate/edit handlers of the three entry points    *)
(* (CLI, stdio MCP server, HTTP/SSE MCP server), and the per-provider      *)
(* shell of providers/base (rate limiter, response cache).                 *)
(***************************************************************************)
EXTENDS Integers, Sequences, FiniteSets, TLC

(***************************************************************************)
(* Generic helpers over sequences and strings.                             *)
(***************************************************************************)
InSeq(x, s) == \E i \in 1..Len(s) : s[i] = x

Range(s) == {s[i] : i \in 1..Len(s)}

\* Array.prototype.filter: the elements of s that are in set S, order kept.
FilterSeq(s, S) == SelectSeq(s, LAMBDA x : x \in S)

\* String.prototype.includes on an already lower-cased string.
Includes(s, k) ==
  \E i \in 1..(Len(s) - Len(k) + 1) : SubSeq(s, i, i + Len(k) - 1) = k

\* keyword.split(' ').length
SplitLength(k) == 1 + Cardinality({i \in 1..Len(k) : SubSeq(k, i, i) = " "})

LowerChar(c) ==
  CASE c = "A" -> "a" [] c = "B" -> "b" [] c = "C" -> "c" [] c = "D" -> "d"
    [] c = "E" -> "e" [] c = "F" -> "f" [] c = "G" -> "g" [] c = "H" -> "h"
    [] c = "I" -> "i" [] c = "J" -> "j" [] c = "K" -> "k" [] c = "L" -> "l"
    [] c = "M" -> "m" [] c = "N" -> "n" [] c = "O" -> "o" [] c = "P" -> "p"
    [] c = "Q" -> "q" [] c = "R" -> "r" [] c = "S" -> "s" [] c = "T" -> "t"
    [] c = "U" -> "u" [] c = "V" -> "v" [] c = "W" -> "w" [] c = "X" -> "x"
    [] c = "Y" -> "y" [] c = "Z" -> "z" [] OTHER -> c

UpperChar(c) ==
  CASE c = "a" -> "A" [] c = "b" -> "B" [] c = "c" -> "C" [] c = "d" -> "D"
    [] c = "e" -> "E" [] c = "f" -> "F" [] c = "g" -> "G" [] c = "h" -> "H"
    [] c = "i" -> "I" [] c = "j" -> "J" [] c = "k" -> "K" [] c = "l" -> "L"
    [] c = "m" -> "M" [] c = "n" -> "N" [] c = "o" -> "O" [] c = "p" -> "P"
    [] c = "q" -> "Q" [] c = "r" -> "R" [] c = "s" -> "S" [] c = "t" -> "T"
    [] c = "u" -> "U" [] c = "v" -> "V" [] c = "w" -> "W" [] c = "x" -> "X"
    [] c = "y" -> "Y" [] c = "z" -> "Z" [] OTHER -> c

RECURSIVE toLowerCase(_)
toLowerCase(s) ==
  IF Len(s) = 0 THEN ""
  ELSE LowerChar(SubSeq(s, 1, 1)) \o toLowerCase(SubSeq(s, 2, Len(s)))

RECURSIVE toUpperCase(_)
toUpperCase(s) ==
  IF Len(s) = 0 THEN ""
  ELSE UpperChar(SubSeq(s, 1, 1)) \o toUpperCase(SubSeq(s, 2, Len(s)))

\* prompt.trim() is empty: every character is a blank.
IsBlank(s) == \A i \in 1..Len(s) : SubSeq(s, i, i) = " "

(***************************************************************************)
(* services/providerSelector: the static use-case table.                   *)
(* confidence is kept in hundredths.                                       *)
(***************************************************************************)
useCaseMapping ==
  <<
    [useCase |-> "vector-design",
     keywords |-> <<"vector", "svg", "scalable", "print-ready", "vector art", "vector illustration">>,
     preferredProviders |-> <<"RECRAFT">>,
     fallbackProviders |-> <<"IDEOGRAM", "OPENAI">>,
     confidence |-> 95],
    [useCase |-> "logo",
     keywords |-> <<"logo", "brand", "icon", "symbol", "emblem", "mark", "badge", "branding", "brand identity">>,
     preferredProviders |-> <<"RECRAFT", "IDEOGRAM">>,
     fallbackProviders |-> <<"OPENAI", "LEONARDO">>,
     confidence |-> 90],
    [useCase |-> "text-heavy",
     keywords |-> <<"text", "poster", "banner", "sign", "quote", "typography", "lettering", "flyer", "advertisement", "text layout", "perfect text">>,
     preferredProviders |-> <<"RECRAFT", "IDEOGRAM">>,
     fallbackProviders |-> <<"OPENAI", "GEMINI">>,
     confidence |-> 95],
    [useCase |-> "graphic-design",
     keywords |-> <<"graphic design", "marketing material", "packaging", "print design", "professional design">>,
     preferredProviders |-> <<"RECRAFT", "IDEOGRAM">>,
     fallbackProviders |-> <<"OPENAI", "LEONARDO">>,
     confidence |-> 90],
    [useCase |-> "photorealistic",
     keywords |-> <<"realistic", "photo", "photography", "real", "lifelike", "portrait", "headshot", "professional">>,
     preferredProviders |-> <<"BFL", "STABLE">>,
     fallbackProviders |-> <<"GEMINI", "DALLE">>,
     confidence |-> 85],
    [useCase |-> "artistic",
     keywords |-> <<"art", "painting", "illustration", "creative", "abstract", "surreal", "imaginative", "artistic">>,
     preferredProviders |-> <<"LEONARDO", "STABLE">>,
     fallbackProviders |-> <<"BFL", "REPLICATE">>,
     confidence |-> 85],
    [useCase |-> "fantasy",
     keywords |-> <<"fantasy", "magical", "mythical", "dragon", "wizard", "medieval", "enchanted", "mystical", "rpg">>,
     preferredProviders |-> <<"LEONARDO", "STABLE">>,
     fallbackProviders |-> <<"BFL", "REPLICATE">>,
     confidence |-> 90],
    [useCase |-> "cinematic",
     keywords |-> <<"cinematic", "dramatic", "epic", "movie", "film", "scene", "atmospheric", "moody">>,
     preferredProviders |-> <<"LEONARDO", "BFL">>,
     fallbackProviders |-> <<"STABLE", "DALLE">>,
     confidence |-> 85],
    [useCase |-> "game-asset",
     keywords |-> <<"game", "asset", "sprite", "texture", "character design", "concept art", "gaming", "video game">>,
     preferredProviders |-> <<"LEONARDO", "STABLE">>,
     fallbackProviders |-> <<"FAL", "BFL">>,
     confidence |-> 85],
    [useCase |-> "ui-design",
     keywords |-> <<"ui", "ux", "interface", "app", "website", "dashboard", "mockup", "wireframe", "design">>,
     preferredProviders |-> <<"DALLE", "IDEOGRAM">>,
     fallbackProviders |-> <<"STABLE", "LEONARDO">>,
     confidence |-> 85],
    [useCase |-> "product",
     keywords |-> <<"product", "ecommerce", "catalog", "item", "merchandise", "packaging">>,
     preferredProviders |-> <<"BFL", "STABLE">>,
     fallbackProviders |-> <<"DALLE", "GEMINI">>,
     confidence |-> 80],
    [useCase |-> "social-media",
     keywords |-> <<"instagram", "tiktok", "youtube", "thumbnail", "story", "post", "reel", "viral", "social">>,
     preferredProviders |-> <<"LEONARDO", "IDEOGRAM">>,
     fallbackProviders |-> <<"BFL", "FAL">>,
     confidence |-> 80],
    [useCase |-> "technical",
     keywords |-> <<"diagram", "chart", "graph", "flowchart", "architecture", "schematic", "blueprint">>,
     preferredProviders |-> <<"DALLE", "GEMINI">>,
     fallbackProviders |-> <<"IDEOGRAM", "STABLE">>,
     confidence |-> 80],
    [useCase |-> "3d-render",
     keywords |-> <<"3d", "render", "cgi", "three dimensional", "model", "sculpture">>,
     preferredProviders |-> <<"STABLE", "BFL">>,
     fallbackProviders |-> <<"DALLE", "LEONARDO">>,
     confidence |-> 85],
    [useCase |-> "anime",
     keywords |-> <<"anime", "manga", "kawaii", "chibi", "japanese", "otaku">>,
     preferredProviders |-> <<"LEONARDO", "STABLE">>,
     fallbackProviders |-> <<"REPLICATE", "FAL">>,
     confidence |-> 90],
    [useCase |-> "carousel",
     keywords |-> <<"carousel", "series", "consistent", "multiple", "sequence", "slides">>,
     preferredProviders |-> <<"LEONARDO">>,
     fallbackProviders |-> <<"IDEOGRAM", "STABLE">>,
     confidence |-> 95],
    [useCase |-> "quick-draft",
     keywords |-> <<"quick", "draft", "fast", "rapid", "speed", "instant">>,
     preferredProviders |-> <<"FAL">>,
     fallbackProviders |-> <<"DALLE", "GEMINI">>,
     confidence |-> 90],
    [useCase |-> "post-process",
     keywords |-> <<"remove background", "transparent", "upscale", "enhance", "cleanup", "edit">>,
     preferredProviders |-> <<"CLIPDROP">>,
     fallbackProviders |-> <<"STABLE", "OPENAI">>,
     confidence |-> 95],
    [useCase |-> "infographic",
     keywords |-> <<"infographic", "data", "visualization", "stats", "chart", "graph", "information">>,
     preferredProviders |-> <<"IDEOGRAM", "DALLE">>,
     fallbackProviders |-> <<"GEMINI", "STABLE">>,
     confidence |-> 85],
    [useCase |-> "multi-image",
     keywords |-> <<"combine", "multiple images", "composite", "merge", "collage", "blend images", "mix images">>,
     preferredProviders |-> <<"GEMINI">>,
     fallbackProviders |-> <<"DALLE", "LEONARDO">>,
     confidence |-> 90]
  >>

\* The value selectProvider / getProvider give when there is no provider.
undefined == "undefined"

UseCaseIds == 1..Len(useCaseMapping)

RECURSIVE ConcatKeywords(_)
ConcatKeywords(n) ==
  IF n = 0 THEN <<>> ELSE ConcatKeywords(n - 1) \o useCaseMapping[n].keywords

\* The indexes of the first occurrences in s.
FirstOccurrences(s) == {i \in 1..Len(s) : \A j \in 1..(i - 1) : s[j] # s[i]}

\* The k-th smallest element of the set of numbers S.
Kth(S, k) == CHOOSE i \in S : Cardinality({j \in S : j <= i}) = k

\* Keeps the first occurrence of every element, in order.
Dedupe(s) ==
  [k \in 1..Cardinality(FirstOccurrences(s)) |-> s[Kth(FirstOccurrences(s), k)]]

\* buildKeywordIndex: the keys of keywordToUseCases in insertion order, and for
\* each key the use cases that declare it, in insertion (table) order.
keywordKeys == Dedupe(ConcatKeywords(Len(useCaseMapping)))

keywordToUseCases ==
  [i \in 1..Len(keywordKeys) |->
     [keyword  |-> keywordKeys[i],
      useCases |-> SelectSeq([u \in UseCaseIds |-> u],
                     LAMBDA u : InSeq(keywordKeys[i], useCaseMapping[u].keywords))]]

RECURSIVE ConcatUseCases(_, _)
ConcatUseCases(idx, n) ==
  IF n = 0 THEN <<>> ELSE ConcatUseCases(idx, n - 1) \o idx[n].useCases

RECURSIVE SumScores(_, _, _)
SumScores(idx, u, n) ==
  IF n = 0 THEN 0
  ELSE SumScores(idx, u, n - 1)
       + (IF InSeq(u, idx[n].useCases)
          THEN Len(idx[n].keyword) * SplitLength(idx[n].keyword) ELSE 0)

\* analyzePrompt: null, or the winning use case with the data its confidence is
\* computed from (confidence = base * (0.5 + 0.5 * matched / total)).
null == [useCase |-> "null"]

\* The index entries whose keyword the lower-cased prompt contains.
MatchedEntries(lower) ==
  SelectSeq(keywordToUseCases, LAMBDA e : Includes(lower, e.keyword))

\* The keys of useCaseScores, in insertion order.
ScoredUseCases(matched) == Dedupe(ConcatUseCases(matched, Len(matched)))

Score(matched, u) == SumScores(matched, u, Len(matched))

MatchCount(matched, u) ==
  Cardinality({i \in 1..Len(matched) : InSeq(u, matched[i].useCases)})

\* Find best match: the first entry that no later entry replaces, a later one
\* winning only with a strictly greater score.
BestMatch(matched, order) ==
  order[CHOOSE i \in 1..Len(order) :
          /\ \A j \in 1..Len(order) : Score(matched, order[j]) <= Score(matched, order[i])
          /\ \A j \in 1..(i - 1) : Score(matched, order[j]) < Score(matched, order[i])]

Analysis(matched, u) ==
  [useCase         |-> useCaseMapping[u].useCase,
   id              |-> u,
   score           |-> Score(matched, u),
   matchedKeywords |-> MatchCount(matched, u),
   totalKeywords   |-> Len(useCaseMapping[u].keywords),
   base            |-> useCaseMapping[u].confidence]

AnalyzeMatched(matched) ==
  IF Len(ScoredUseCases(matched)) = 0 THEN null
  ELSE Analysis(matched, BestMatch(matched, ScoredUseCases(matched)))

analyzePrompt(prompt) ==
  IF prompt = "" \/ IsBlank(prompt) THEN null
  ELSE AnalyzeMatched(MatchedEntries(toLowerCase(prompt)))

\* The first element of seq s that is in the array avail, or undefined.
FirstAvailable(s, avail) ==
  IF \E i \in 1..Len(s) : InSeq(s[i], avail)
  THEN s[CHOOSE i \in 1..Len(s) :
           /\ InSeq(s[i], avail)
           /\ \A j \in 1..(i - 1) : ~InSeq(s[j], avail)]
  ELSE undefined

\* a, unless it is undefined, and then b.
OrElse(a, b) == IF a # undefined THEN a ELSE b

qualityProviders == <<"BFL", "STABLE", "DALLE">>
speedProviders == <<"FAL", "GEMINI", "DALLE">>
preferredOrder ==
  <<"GEMINI", "OPENAI", "STABILITY", "BFL", "LEONARDO", "IDEOGRAM", "FAL", "REPLICATE">>

\* selectByUseCase with the fallback providers tried first.
selectByUseCaseFallbackFirst(analysis, availableProviders) ==
  IF analysis.useCase = "null" THEN undefined
  ELSE OrElse(FirstAvailable(useCaseMapping[analysis.id].fallbackProviders,
                             availableProviders),
              FirstAvailable(useCaseMapping[analysis.id].preferredProviders,
                             availableProviders))

\* Try preferred providers first, then the use case's fallback providers.
selectByUseCase(analysis, availableProviders) ==
  IF analysis.useCase = "null" THEN undefined
  ELSE OrElse(FirstAvailable(useCaseMapping[analysis.id].preferredProviders,
                             availableProviders),
              FirstAvailable(useCaseMapping[analysis.id].fallbackProviders,
                             availableProviders))

\* Check for quality keywords.
selectByQuality(lower, availableProviders) ==
  IF \/ Includes(lower, "high quality")
     \/ Includes(lower, "professional")
     \/ Includes(lower, "4k")
  THEN FirstAvailable(qualityProviders, availableProviders)
  ELSE undefined

\* Check for speed keywords.
selectBySpeed(lower, availableProviders) ==
  IF \/ Includes(lower, "quick")
     \/ Includes(lower, "fast")
     \/ Includes(lower, "draft")
  THEN FirstAvailable(speedProviders, availableProviders)
  ELSE undefined

\* selectByOrder without the last resort of the first available provider.
selectByOrderOnly(availableProviders) ==
  FirstAvailable(preferredOrder, availableProviders)

\* Default to the preferred order, then to the first available provider.
selectByOrder(availableProviders) ==
  OrElse(FirstAvailable(preferredOrder, availableProviders), availableProviders[1])

\* The explicit provider is requested and available.
explicitApplies(availableProviders, explicitProvider) ==
  /\ explicitProvider # undefined
  /\ explicitProvider # "auto"
  /\ InSeq(explicitProvider, availableProviders)

\* selectProvider from `if (analysis)` on, for the analysis of the prompt.
selectAnalysed(analysis, prompt, availableProviders) ==
  OrElse(selectByUseCase(analysis, availableProviders),
    OrElse(selectByQuality(toLowerCase(prompt), availableProviders),
      OrElse(selectBySpeed(toLowerCase(prompt), availableProviders),
             selectByOrder(availableProviders))))

selectProviderExplicit(prompt, availableProviders, explicitProvider) ==
  IF Len(availableProviders) = 0 THEN undefined
  ELSE IF explicitApplies(availableProviders, explicitProvider)
  THEN explicitProvider
  ELSE selectAnalysed(analyzePrompt(prompt), prompt, availableProviders)

selectProvider(prompt, availableProviders) ==
  selectProviderExplicit(prompt, availableProviders, undefined)

(***************************************************************************)
(* Providers: names and declared capabilities (getCapabilities).           *)
(***************************************************************************)
allNames ==
  <<"MOCK", "OPENAI", "STABILITY", "REPLICATE", "GEMINI", "IDEOGRAM", "BFL",
    "LEONARDO", "FAL", "CLIPDROP", "RECRAFT">>

ProviderNames == Range(allNames)

RealProviders == ProviderNames \ {"MOCK"}

fallbackChain ==
  <<"RECRAFT", "BFL", "OPENAI", "LEONARDO", "IDEOGRAM", "STABILITY", "GEMINI",
    "FAL", "REPLICATE">>

Caps(edit, w, h) == [supportsEdit |-> edit, maxWidth |-> w, maxHeight |-> h]

getCapabilities(name) ==
  CASE name = "MOCK"      -> Caps(TRUE, 256, 256)
    [] name = "OPENAI"    -> Caps(TRUE, 1792, 1792)
    [] name = "STABILITY" -> Caps(TRUE, 1536, 1536)
    [] name = "REPLICATE" -> Caps(TRUE, 2048, 2048)
    [] name = "GEMINI"    -> Caps(TRUE, 2048, 2048)
    [] name = "IDEOGRAM"  -> Caps(TRUE, 2048, 2048)
    [] name = "BFL"       -> Caps(TRUE, 2048, 2048)
    [] name = "LEONARDO"  -> Caps(FALSE, 1024, 1024)
    [] name = "FAL"       -> Caps(TRUE, 1536, 1536)
    [] name = "CLIPDROP"  -> Caps(TRUE, 1024, 1024)
    [] name = "RECRAFT"   -> Caps(FALSE, 2048, 2048)

(***************************************************************************)
(* Errors and call results.  A thrown value is a record; a call that may   *)
(* throw yields Return(v) or Throw(e).                                     *)
(***************************************************************************)
NoError == [name |-> "none", code |-> "none", provider |-> "NONE", isRetryable |-> FALSE]

ProviderError(code, provider, isRetryable) ==
  [name |-> "ProviderError", code |-> code, provider |-> provider,
   isRetryable |-> isRetryable]

\* new Error(...): no provider field, no isRetryable field.
PlainError(code, provider) ==
  [name |-> "Error", code |-> code, provider |-> provider, isRetryable |-> FALSE]

Return(v) == [threw |-> FALSE, value |-> v, error |-> NoError]

Throw(e) == [threw |-> TRUE, value |-> undefined, error |-> e]

(***************************************************************************)
(* Config (config.js).  env is the process environment:                    *)
(*   credentials       the real providers whose API key variable is set    *)
(*   DISABLE_FALLBACK  DISABLE_FALLBACK === 'true'                         *)
(*   DEFAULT_PROVIDER  its value, "" when unset                            *)
(*   allowMock         ALLOW_MOCK_PROVIDER === 'true' or NODE_ENV is       *)
(*                     development or test                                 *)
(* A provider instance is a stateless singleton, identified by its name.   *)
(***************************************************************************)
isConfigured(env, name) == name = "MOCK" \/ name \in env.credentials

createProvider(name) == IF name \in ProviderNames THEN name ELSE undefined

getProvider(name) == createProvider(toUpperCase(name))

getConfiguredProviders(env) ==
  SelectSeq(allNames, LAMBDA n : isConfigured(env, n))

getConfiguredEditProviders(env) ==
  SelectSeq(allNames,
            LAMBDA n : isConfigured(env, n) /\ getCapabilities(n).supportsEdit)

\* The first provider of the fallback chain that is configured, or undefined.
firstOfFallbackChain(env) ==
  FirstAvailable(fallbackChain, getConfiguredProviders(env))

\* getDefaultProvider past the DEFAULT_PROVIDER check: the fallback chain, MOCK last.
defaultFromChain(env) ==
  IF env.DISABLE_FALLBACK
  THEN Throw(ProviderError("no-default-fallback-disabled", "NONE", FALSE))
  ELSE IF firstOfFallbackChain(env) # undefined
  THEN Return(firstOfFallbackChain(env))
  ELSE IF ~env.allowMock
  THEN Throw(ProviderError("no-providers-configured", "NONE", FALSE))
  ELSE Return(createProvider("MOCK"))

getDefaultProvider(env) ==
  IF env.DEFAULT_PROVIDER = "" THEN defaultFromChain(env)
  ELSE IF /\ getProvider(env.DEFAULT_PROVIDER) # undefined
          /\ isConfigured(env, getProvider(env.DEFAULT_PROVIDER))
  THEN Return(getProvider(env.DEFAULT_PROVIDER))
  ELSE IF env.DISABLE_FALLBACK
  THEN Throw(ProviderError("default-not-configured", env.DEFAULT_PROVIDER, FALSE))
  ELSE defaultFromChain(env)

\* Check if we should use auto-selection (explicit 'auto' or DEFAULT_PROVIDER=auto).
shouldUseAutoSelection(env, requestedName) ==
  \/ requestedName = "auto"
  \/ (requestedName = undefined /\ env.DEFAULT_PROVIDER = "auto")

\* The name automatic selection gives, MOCK excluded; undefined when automatic
\* selection does not apply.  prompt is undefined when the caller passes none.
autoSelectedName(env, requestedName, prompt) ==
  IF shouldUseAutoSelection(env, requestedName) /\ prompt # undefined /\ prompt # ""
  THEN selectProvider(prompt, SelectSeq(getConfiguredProviders(env), LAMBDA n : n # "MOCK"))
  ELSE undefined

\* getProviderWithFallback for a request that names a provider.
requestedProvider(env, requestedName, provider) ==
  IF provider # undefined /\ isConfigured(env, provider)
  THEN Return(provider)
  ELSE IF provider # undefined /\ env.DISABLE_FALLBACK
  THEN Throw(ProviderError("not-configured-fallback-disabled", requestedName, FALSE))
  ELSE IF provider = undefined /\ env.DISABLE_FALLBACK
  THEN Throw(ProviderError("unknown-provider-fallback-disabled", requestedName, FALSE))
  ELSE getDefaultProvider(env)

\* getProviderWithFallback past the automatic selection.
requestedOrDefault(env, requestedName) ==
  IF requestedName # undefined /\ requestedName # "" /\ requestedName # "auto"
  THEN requestedProvider(env, requestedName, getProvider(requestedName))
  ELSE getDefaultProvider(env)

selectedOrRequested(env, requestedName, selectedName) ==
  IF /\ selectedName # undefined
     /\ getProvider(selectedName) # undefined
     /\ isConfigured(env, getProvider(selectedName))
  THEN Return(getProvider(selectedName))
  ELSE requestedOrDefault(env, requestedName)

getProviderWithFallback(env, requestedName, prompt) ==
  selectedOrRequested(env, requestedName,
                      autoSelectedName(env, requestedName, prompt))

(***************************************************************************)
(* Bounds and the inputs the model enumerates.                             *)
(***************************************************************************)
\* At most this many credential variables are set in the environment.
MaxCredentials == 2

\* The providers whose credential variable the enumerated environments may set.
CredentialPool == {"RECRAFT", "BFL", "OPENAI", "FAL", "CLIPDROP", "LEONARDO"}

Envs ==
  {[credentials |-> c, DISABLE_FALLBACK |-> d, DEFAULT_PROVIDER |-> dp, allowMock |-> m] :
     c \in {s \in SUBSET CredentialPool : Cardinality(s) <= MaxCredentials},
     d \in BOOLEAN, dp \in {"", "auto", "FAL"}, m \in BOOLEAN}

Prompts == {"logo for a coffee shop with text", "sunset over hills"}

\* <<width, height>>, 0 for a dimension the request leaves out.
Dimensions == {<<0, 0>>, <<3000, 1024>>, <<1024, 2000>>}

\* <<width, height>> of the base image of an edit.
ImageSizes == {<<512, 512>>, <<1024, 512>>}

ExplicitNames == ProviderNames \cup {"bfl", "bogus"}

Input(op, entry, name, prompt, dim, img) ==
  [op |-> op, entry |-> entry, provider |-> name, prompt |-> prompt,
   width |-> dim[1], height |-> dim[2], image |-> img]

NoInput == Input("none", "none", undefined, "", <<0, 0>>, <<0, 0>>)

\* The prompt only takes part in automatic selection, the base image only in
\* the stdio server's automatic edit: the other requests fix them.
GenerateInputs ==
  {Input("generate", e, "auto", p, d, <<0, 0>>) :
     e \in {"cli", "mcp", "http"}, p \in Prompts, d \in Dimensions}
  \cup
  {Input("generate", e, n, "sunset over hills", d, <<0, 0>>) :
     e \in {"cli", "mcp", "http"}, n \in ExplicitNames, d \in Dimensions}

EditInputs ==
  {Input("edit", e, "auto", p, <<0, 0>>, i) :
     e \in {"cli", "mcp", "http"}, p \in Prompts, i \in ImageSizes}
  \cup
  {Input("edit", e, n, "sunset over hills", <<0, 0>>, <<512, 512>>) :
     e \in {"cli", "mcp", "http"}, n \in ExplicitNames}

(***************************************************************************)
(* What a provider's generate / edit can end with, seen from its caller:   *)
(* a result, a ProviderError marked retryable, or one not marked so.       *)
(***************************************************************************)
\* edit() of the provider does more than throw `does not support image
\* editing`.
implementsEdit(name) == name \notin {"FAL", "REPLICATE", "LEONARDO", "RECRAFT"}

Outcomes(name, op) ==
  IF name = "MOCK" THEN {"ok"}
  ELSE IF op = "edit" /\ ~implementsEdit(name)
  THEN {"nonretryable"}
  ELSE {"ok", "retryable", "nonretryable"}

BackendError(name, outcome) ==
  ProviderError("backend-failure", name, outcome = "retryable")

\* result.warnings of a result, as tags.
ResultWarnings(name) == IF name = "MOCK" THEN <<<<"mock", "MOCK">>>> ELSE <<>>

(***************************************************************************)
(* Request handlers: provider resolution and capability gate.              *)
(***************************************************************************)
ExceedsWidth(input, caps) ==
  input.width # 0 /\ caps.maxWidth # 0 /\ input.width > caps.maxWidth

ExceedsHeight(input, caps) ==
  input.height # 0 /\ caps.maxHeight # 0 /\ input.height > caps.maxHeight

IsAuto(input) == input.provider = "auto" \/ input.provider = undefined

\* CapabilityGate with the width test only.
CapabilityGateWidthOnly(input, provider) ==
  IF ExceedsWidth(input, getCapabilities(provider))
  THEN Throw(PlainError("width-exceeds-maximum", provider))
  ELSE Return(provider)

\* Validate explicit provider supports dimensions.
CapabilityGate(input, provider) ==
  IF ExceedsWidth(input, getCapabilities(provider))
  THEN Throw(PlainError("width-exceeds-maximum", provider))
  ELSE IF ExceedsHeight(input, getCapabilities(provider))
  THEN Throw(PlainError("height-exceeds-maximum", provider))
  ELSE Return(provider)

\* The capability check on the provider r holds, when resolving it did not throw.
gateResolved(input, r) ==
  IF r.threw THEN r ELSE CapabilityGate(input, r.value)

\* Filter providers that support the requested dimensions.
compatibleProviders(env, input) ==
  SelectSeq(getConfiguredProviders(env),
            LAMBDA n : /\ getProvider(n) # undefined
                       /\ ~ExceedsWidth(input, getCapabilities(n))
                       /\ ~ExceedsHeight(input, getCapabilities(n)))

\* provider = selectedName ? Config.getProvider(selectedName)
\*                         : Config.getProviderWithFallback(undefined, input.prompt)
selectedOrFallback(env, input, selectedName) ==
  IF selectedName # undefined
  THEN Return(getProvider(selectedName))
  ELSE getProviderWithFallback(env, undefined, input.prompt)

\* Automatic selection among the candidates; emptyError is thrown when there are none.
selectAmong(env, input, candidates, emptyError) ==
  IF Len(candidates) = 0 THEN Throw(emptyError)
  ELSE selectedOrFallback(env, input, selectProvider(input.prompt, candidates))

\* handleGenerate (CLI) and image_generate (stdio server) up to the provider call.
resolveGenerate(env, input) ==
  IF IsAuto(input)
  THEN selectAmong(env, input, compatibleProviders(env, input),
                   PlainError("no-provider-supports-dimensions", "NONE"))
  ELSE gateResolved(input, getProviderWithFallback(env, input.provider, input.prompt))

\* image.generate (HTTP/SSE server) up to the provider call.
resolveGenerateHttp(env, input) ==
  gateResolved(input, getProviderWithFallback(env, input.provider, undefined))

SupportsEditGate(provider) ==
  IF provider = undefined
  THEN Throw(PlainError("no-provider-for-editing", "NONE"))
  ELSE IF ~getCapabilities(provider).supportsEdit
  THEN Throw(PlainError("does-not-support-editing", provider))
  ELSE Return(provider)

\* The edit-support check on the provider r holds, when resolving it did not throw.
editGateResolved(r) ==
  IF r.threw THEN r ELSE SupportsEditGate(r.value)

\* Provider selection of handleEdit (CLI) and image_edit (stdio server).
selectEditProvider(env, input) ==
  IF IsAuto(input)
  THEN selectAmong(env, input, getConfiguredEditProviders(env),
                   PlainError("no-edit-providers-configured", "NONE"))
  ELSE getProviderWithFallback(env, input.provider, input.prompt)

\* handleEdit (CLI) up to the provider call.
resolveEdit(env, input) ==
  editGateResolved(selectEditProvider(env, input))

\* Math.abs(ratio - 1) > 0.05 for ratio = width / height, in exact arithmetic.
AbsDiff(a, b) == IF a >= b THEN a - b ELSE b - a

OrOne(n) == IF n = 0 THEN 1 ELSE n

NotNearSquare(img) == 20 * AbsDiff(OrOne(img[1]), OrOne(img[2])) > OrOne(img[2])

\* altName ? Config.getProvider(altName) : Config.getProvider(alternatives[0])
alternativeProvider(altName, alternatives) ==
  IF altName # undefined THEN getProvider(altName) ELSE getProvider(alternatives[1])

\* BFL Kontext has issues preserving non-square aspect ratios: in auto mode it is
\* replaced, for a non-square base image, when another edit provider is configured.
excludeBflForNonSquare(env, input, provider, alternatives) ==
  IF /\ provider = "BFL" /\ IsAuto(input)
     /\ NotNearSquare(input.image) /\ Len(alternatives) > 0
  THEN Return(alternativeProvider(selectProvider(input.prompt, alternatives),
                                  alternatives))
  ELSE Return(provider)

\* The exclusion applied to the provider r holds, when resolving it did not throw.
swapResolved(env, input, r, alternatives) ==
  IF r.threw THEN r ELSE excludeBflForNonSquare(env, input, r.value, alternatives)

\* image_edit (stdio server) up to the provider call.
resolveEditMcp(env, input) ==
  swapResolved(env, input, resolveEdit(env, input),
               SelectSeq(getConfiguredEditProviders(env), LAMBDA n : n # "BFL"))

\* image.edit (HTTP/SSE server) up to the provider call.
resolveEditHttp(env, input) ==
  editGateResolved(getProviderWithFallback(env, input.provider, undefined))

resolve(env, input) ==
  CASE input.op = "generate" /\ input.entry = "http" -> resolveGenerateHttp(env, input)
    [] input.op = "generate" /\ input.entry # "http" -> resolveGenerate(env, input)
    [] input.op = "edit" /\ input.entry = "cli"      -> resolveEdit(env, input)
    [] input.op = "edit" /\ input.entry = "mcp"      -> resolveEditMcp(env, input)
    [] input.op = "edit" /\ input.entry = "http"     -> resolveEditHttp(env, input)

(***************************************************************************)
(* State.                                                                  *)
(*   env       the process environment (fixed at start)                    *)
(*   pc        where the request in hand is: idle, primary (awaiting the   *)
(*             resolved provider), fallback (awaiting the fallback         *)
(*             provider), done (answered)                                  *)
(*   input     the parsed request                                          *)
(*   calls     the provider calls made for the request, in order, each     *)
(*             with its status: inflight, ok, retryable, nonretryable      *)
(*   caught    the error the catch block of generate holds                 *)
(*   response  what the handler returned or threw                          *)
(*   now           Date.now(), in milliseconds from the start              *)
(*   rateLimitMap  per provider name the count and reset time of the       *)
(*                 window (base.js, module level)                          *)
(*   running       per task the provider whose backend call is under way   *)
(*   window, lastCheck   history of the limiter's checks                   *)
(*   responseCache per cache key the cached result and its timestamp       *)
(*                 (base.js, module level)                                 *)
(*   network       the number of results the backends have produced        *)
(*   inflight      per task the provider method awaiting its backend       *)
(*   origin, lastCall    history of the provider calls                     *)
(*   retry         the run of executeWithRetry under way: its budget, its  *)
(*                 loop counter, lastError, and what it has done so far    *)
(*   job           the provider call whose timers and requests are         *)
(*                 followed: its timers, the requests it has sent with     *)
(*                 the signal each was given, and how it ended             *)
(*   keywordIndex  the size of the module-level Map keywordToUseCases of   *)
(*                 the selector, 0 until the first classification fills it *)
(*   analyses      per prompt what its first classification returned       *)
(*   lastAnalysis, lastSelect   the last call of analyzePrompt and of      *)
(*                 selectProvider, with what it returned                   *)
(*   providers     Config.providers: per registered name the instance      *)
(*                 stored, 0 for none; an instance is the number of the    *)
(*                 constructor call that made it                           *)
(*   instances     the number of provider objects constructed so far       *)
(*   firstStored   per name the first instance stored under it             *)
(*   lastLookup    the last getProvider call and what it returned          *)
(*   lastConfigured  the last isConfigured call: the provider, the value   *)
(*                 of its credential, the mode and the answer              *)
(*   lastValidated the last validatePrompt call and its outcome            *)
(*   store         a response cache filled to its cleanup threshold        *)
(*   clock         Date.now() for that cache                               *)
(*   lastInsert    the last cacheResult call on it: the key, the time and  *)
(*                 the cache before                                        *)
(***************************************************************************)
VARIABLES env, pc, input, calls, caught, response,
          now, rateLimitMap, running, window, lastCheck,
          responseCache, network, inflight, origin, lastCall,
          retry, job,
          keywordIndex, analyses, lastAnalysis, lastSelect,
          providers, instances, firstStored, lastLookup, lastConfigured,
          lastValidated, store, clock, lastInsert

orchVars == <<env, pc, input, calls, caught, response>>

\* The clock and the state of the providers' shared rate limiter.
rateVars == <<now, rateLimitMap, running, window, lastCheck>>

\* The providers' shared response cache and the calls that go through it.
cacheVars == <<responseCache, network, inflight, origin, lastCall>>

shellVars == <<rateVars, cacheVars>>

\* The run of executeWithRetry under way.
retryVars == <<retry>>

\* The provider call whose timers and requests are followed.
pollVars == <<job>>

\* The provider selector: its keyword index and the history of its calls.
selVars == <<keywordIndex, analyses, lastAnalysis, lastSelect>>

\* A response cache large enough to be swept, its clock, the last insertion.
sweepVars == <<store, clock, lastInsert>>

\* The provider registry of Config and the history of its lookups.
regVars == <<providers, instances, firstStored, lastLookup, lastConfigured, lastValidated>>

\* The state of the parts of a provider call that are modelled on their own.
auxVars == <<retryVars, pollVars, selVars, regVars, sweepVars>>

vars == <<orchVars, shellVars, auxVars>>

Call(provider, op) == [provider |-> provider, op |-> op, status |-> "inflight"]

NoResponse == [status |-> "none", provider |-> undefined, warnings |-> <<>>, error |-> NoError]

Success(provider, warnings) ==
  [status |-> "ok", provider |-> provider, warnings |-> warnings, error |-> NoError]

Failure(error) ==
  [status |-> "error", provider |-> undefined, warnings |-> <<>>, error |-> error]

\* No request is being handled.
orchIdle ==
  /\ pc = "idle"
  /\ input = NoInput
  /\ calls = <<>>
  /\ caught = NoError
  /\ response = NoResponse

\* An environment with no credential variable set.
BareEnv ==
  [credentials |-> {}, DISABLE_FALLBACK |-> FALSE, DEFAULT_PROVIDER |-> "", allowMock |-> FALSE]

(***************************************************************************)
(* The rate limiter of the provider base class: a fixed window per         *)
(* provider name, kept in the module-level rateLimitMap.                   *)
(***************************************************************************)
MAX_REQUESTS_PER_WINDOW == 10

RATE_LIMIT_WINDOW == 60 * 1000

\* The provider names whose requests the model runs, and the concurrent requests.
RateNames == {"BFL", "FAL"}

MaxTasks == 2

Tasks == 1..MaxTasks

\* The clock advances by half a window, MaxTicks times at most.
TickStep == RATE_LIMIT_WINDOW \div 2

MaxTicks == 3

\* rateLimitMap.get(key) of a key that was never set.
NoLimit == [count |-> 0, resetTime |-> 0]

\* checkRateLimit with the ceiling test off by one.
checkRateLimitOffByOne(limits, key, t) ==
  IF limits[key] # NoLimit /\ t < limits[key].resetTime
  THEN IF limits[key].count > MAX_REQUESTS_PER_WINDOW
       THEN [threw |-> TRUE, error |-> ProviderError("rate-limit-exceeded", key, TRUE),
             limits |-> limits]
       ELSE [threw |-> FALSE, error |-> NoError,
             limits |-> [limits EXCEPT ![key].count = @ + 1]]
  ELSE [threw |-> FALSE, error |-> NoError,
        limits |-> [limits EXCEPT ![key] =
                      [count |-> 1, resetTime |-> t + RATE_LIMIT_WINDOW]]]

\* checkRateLimit without the ceiling test.
checkRateLimitNoCeiling(limits, key, t) ==
  IF limits[key] # NoLimit /\ t < limits[key].resetTime
  THEN [threw |-> FALSE, error |-> NoError,
        limits |-> [limits EXCEPT ![key].count = @ + 1]]
  ELSE [threw |-> FALSE, error |-> NoError,
        limits |-> [limits EXCEPT ![key] =
                      [count |-> 1, resetTime |-> t + RATE_LIMIT_WINDOW]]]

\* checkRateLimit of the provider named key at time t on the map limits: whether
\* it threw, the error, and the map it leaves.  It holds no await, so it runs
\* from its first statement to its last without another task in between.
checkRateLimit(limits, key, t) ==
  IF limits[key] # NoLimit /\ t < limits[key].resetTime
  THEN IF limits[key].count >= MAX_REQUESTS_PER_WINDOW
       THEN [threw |-> TRUE, error |-> ProviderError("rate-limit-exceeded", key, TRUE),
             limits |-> limits]
       ELSE [threw |-> FALSE, error |-> NoError,
             limits |-> [limits EXCEPT ![key].count = @ + 1]]
  ELSE [threw |-> FALSE, error |-> NoError,
        limits |-> [limits EXCEPT ![key] =
                      [count |-> 1, resetTime |-> t + RATE_LIMIT_WINDOW]]]

(***************************************************************************)
(* History kept beside the program's state: per name the window the last   *)
(* check fell in (its end, the number of checks made in it, how many of    *)
(* them were admitted, whether the window before it was used up), and the  *)
(* last check made.  Counts stop at one past the ceiling.                  *)
(***************************************************************************)
PastCeiling == MAX_REQUESTS_PER_WINDOW + 1

UpTo(n) == IF n < PastCeiling THEN n + 1 ELSE PastCeiling

NoWindow == [end |-> 0, checks |-> 0, admitted |-> 0, afterFull |-> FALSE]

NoCheck == [name |-> undefined, time |-> 0, threw |-> FALSE, error |-> NoError]

Admit(threw) == IF threw THEN 0 ELSE 1

\* The window record after a check at time t that threw or not.
WindowAfter(w, t, threw) ==
  IF w.checks = 0 \/ t >= w.end
  THEN [end |-> t + RATE_LIMIT_WINDOW, checks |-> 1, admitted |-> Admit(threw),
        afterFull |-> w.checks >= MAX_REQUESTS_PER_WINDOW]
  ELSE [w EXCEPT !.checks = UpTo(w.checks),
                 !.admitted = IF threw THEN @ ELSE UpTo(@)]

rateIdle ==
  /\ now = 0
  /\ rateLimitMap = [n \in ProviderNames |-> NoLimit]
  /\ running = [t \in Tasks |-> undefined]
  /\ window = [n \in ProviderNames |-> NoWindow]
  /\ lastCheck = NoCheck

\* The effect of one checkRateLimit call with result r on the limiter's state.
Checked(key, r) ==
  /\ rateLimitMap' = r.limits
  /\ window' = [window EXCEPT ![key] = WindowAfter(@, now, r.threw)]
  /\ lastCheck' = [name |-> key, time |-> now, threw |-> r.threw, error |-> r.error]

\* A provider method reaches `await this.checkRateLimit()` in task t; when the
\* check passes, the method goes on to its backend call.
awaitCheckRateLimit(t, key, r) ==
  /\ running[t] = undefined
  /\ Checked(key, r)
  /\ running' = IF r.threw THEN running ELSE [running EXCEPT ![t] = key]
  /\ UNCHANGED <<now, orchVars, cacheVars, auxVars>>

requestStarts ==
  \E t \in Tasks, key \in RateNames :
    awaitCheckRateLimit(t, key, checkRateLimit(rateLimitMap, key, now))

\* The backend call of task t settles; the limiter is not touched.
requestSettles ==
  \E t \in Tasks :
    /\ running[t] # undefined
    /\ running' = [running EXCEPT ![t] = undefined]
    /\ UNCHANGED <<now, rateLimitMap, window, lastCheck, orchVars, cacheVars, auxVars>>

\* Date.now() moves on.
tick ==
  /\ now < MaxTicks * TickStep
  /\ now' = now + TickStep
  /\ UNCHANGED <<rateLimitMap, running, window, lastCheck, orchVars, cacheVars, auxVars>>

(***************************************************************************)
(* The response cache of the provider base class and the provider methods  *)
(* that go through it.                                                     *)
(***************************************************************************)
CACHE_TTL == 5 * 60 * 1000

MAX_RETRIES == 3

MAX_PROMPT_LENGTH == 4000

\* responseCache.size above which cacheResult sweeps the expired entries.
CacheSweepSize == 100

\* The providers, prompts and number of results the model runs, and the calls
\* that can be under way together.
ShellProviders == {"BFL", "OPENAI"}

CacheTasks == {"a"}

ShellPrompts == {"sunset over hills", "a red fox"}

MaxResults == 2

\* The clock advances by half the cache's time to live, until an entry made at
\* the start has expired.
CacheTick == CACHE_TTL \div 2

CacheHorizon == CACHE_TTL

Request(prompt) ==
  [prompt |-> prompt, model |-> undefined, width |-> 1024, height |-> 1024,
   seed |-> undefined, guidance |-> undefined, steps |-> undefined]

Requests == {Request(p) : p \in ShellPrompts}

\* One request with a guidance scale and with a number of steps.
VariantRequests ==
  {[Request("sunset over hills") EXCEPT !.guidance = "7"],
   [Request("sunset over hills") EXCEPT !.steps = "50"]}

AllRequests == Requests \cup VariantRequests

\* The provider methods that call validatePrompt and checkRateLimit first.
checksRateLimit(name, op) ==
  \/ op = "generate" /\ name \in {"CLIPDROP", "FAL", "IDEOGRAM", "LEONARDO", "BFL", "RECRAFT"}
  \/ op = "edit" /\ name \in {"CLIPDROP", "IDEOGRAM", "BFL"}

\* The provider methods that call getCachedResult and cacheResult.
usesCache(name, op) ==
  op = "generate" /\ name \in {"CLIPDROP", "FAL", "IDEOGRAM", "LEONARDO", "BFL", "RECRAFT"}

\* The provider methods that run their backend call inside executeWithRetry.
usesRetry(name, op) == checksRateLimit(name, op)

\* validatePrompt refusing a prompt of the maximum length too.
validatePromptAtLimit(name, prompt) ==
  IF prompt = "" \/ IsBlank(prompt)
  THEN Throw(ProviderError("prompt-empty", name, FALSE))
  ELSE IF Len(prompt) >= MAX_PROMPT_LENGTH
  THEN Throw(ProviderError("prompt-too-long", name, FALSE))
  ELSE Return(prompt)

validatePrompt(name, prompt) ==
  IF prompt = "" \/ IsBlank(prompt)
  THEN Throw(ProviderError("prompt-empty", name, FALSE))
  ELSE IF Len(prompt) > MAX_PROMPT_LENGTH
  THEN Throw(ProviderError("prompt-too-long", name, FALSE))
  ELSE Return(prompt)

\* generateCacheKey with the guidance scale and the steps in the key.
generateCacheKeyAllFields(name, request) ==
  <<name, request.prompt, request.model, request.width, request.height, request.seed,
    request.guidance, request.steps>>

\* JSON.stringify of the fields the key is made of.
generateCacheKey(name, request) ==
  <<name, request.prompt, request.model, request.width, request.height, request.seed>>

CacheKeys == {generateCacheKey(n, r) : n \in ShellProviders, r \in AllRequests}

\* responseCache.get(key) of a key that is not in the map.
NoEntry == [result |-> null, timestamp |-> 0]

\* getCachedResult: the result (null on a miss) and the cache it leaves.
getCachedResult(cache, key, t) ==
  IF cache[key] = NoEntry
  THEN [result |-> null, cache |-> cache]
  ELSE IF t - cache[key].timestamp < CACHE_TTL
  THEN [result |-> cache[key].result, cache |-> cache]
  ELSE [result |-> null, cache |-> [cache EXCEPT ![key] = NoEntry]]

\* sweepCache sweeping a cache that holds CacheSweepSize entries too.
sweepCacheAtCeiling(cache, t) ==
  IF Cardinality({k \in DOMAIN cache : cache[k] # NoEntry}) >= CacheSweepSize
  THEN [k \in DOMAIN cache |->
          IF cache[k] # NoEntry /\ t - cache[k].timestamp > CACHE_TTL
          THEN NoEntry ELSE cache[k]]
  ELSE cache

\* The expired entries leave a cache that holds more than CacheSweepSize.
sweepCache(cache, t) ==
  IF Cardinality({k \in DOMAIN cache : cache[k] # NoEntry}) > CacheSweepSize
  THEN [k \in DOMAIN cache |->
          IF cache[k] # NoEntry /\ t - cache[k].timestamp > CACHE_TTL
          THEN NoEntry ELSE cache[k]]
  ELSE cache

cacheResult(cache, key, result, t) ==
  sweepCache([cache EXCEPT ![key] = [result |-> result, timestamp |-> t]], t)

(***************************************************************************)
(* How a backend call can end: the number of requests sent and the         *)
(* outcome.  executeWithRetry sends again after a retryable error, up to   *)
(* MAX_RETRIES requests, and stops at a result or a non-retryable error.   *)
(***************************************************************************)
executeWithRetry(retries) ==
  {[fetches |-> k, outcome |-> o] : k \in 1..retries, o \in {"ok", "nonretryable"}}
  \cup {[fetches |-> retries, outcome |-> "retryable"]}

Endings(name, op) ==
  IF usesRetry(name, op) THEN executeWithRetry(MAX_RETRIES)
  ELSE {[fetches |-> 1, outcome |-> o] : o \in {"ok", "retryable", "nonretryable"}}

(***************************************************************************)
(* History kept beside the program's state: per provider method and        *)
(* request the last result a backend produced and when; the last call that *)
(* returned or threw, with the number of requests it sent to the backend.  *)
(***************************************************************************)
NoCall == [provider |-> undefined]

\* The limiter's entry is not followed for the call.
NotFollowed == [count |-> -1, resetTime |-> -1]

\* A call of a provider method, with the cache as it is when the call is made
\* and, where it is followed, the limiter's entry of the provider.
Invocation(name, op, request, t, cache, limit) ==
  [provider |-> name, op |-> op, request |-> request, startedAt |-> t,
   cacheBefore |-> cache, limitBefore |-> limit]

\* The provider methods the model runs: one that goes through limiter and cache,
\* one through the limiter only, one through neither.
ShellMethods == {<<"BFL", "generate">>, <<"BFL", "edit">>, <<"OPENAI", "generate">>}

Methods == {<<m[1], m[2], r>> : m \in ShellMethods, r \in Requests}

\* generate of one provider, called with requests that differ in guidance and
\* steps only.
FingerprintMethods ==
  {<<"BFL", "generate", r>> : r \in {Request("sunset over hills")} \cup VariantRequests}

NoOrigin == [result |-> null, doneAt |-> 0]

\* The call that ends with the cache as cacheAfter and the limiter as limits:
\* what it was and gave, what it did to the cache (to the entry of its own key,
\* to the other entries) and to the limiter's entry of its provider.
Ended(call, outcome, result, fetches, cacheAfter, limits) ==
  [provider |-> call.provider, op |-> call.op, request |-> call.request,
   startedAt |-> call.startedAt, outcome |-> outcome, result |-> result,
   fetches |-> fetches, before |-> origin[<<call.provider, call.op, call.request>>],
   entryBefore |-> call.cacheBefore[generateCacheKey(call.provider, call.request)],
   entryAfter |-> cacheAfter[generateCacheKey(call.provider, call.request)],
   limitBefore |-> call.limitBefore,
   limitAfter |-> IF call.limitBefore = NotFollowed THEN NotFollowed
                  ELSE limits[call.provider],
   othersKept |-> \A k \in CacheKeys \ {generateCacheKey(call.provider, call.request)} :
                    cacheAfter[k] = call.cacheBefore[k]]

cacheIdle ==
  /\ responseCache = [k \in CacheKeys |-> NoEntry]
  /\ network = 0
  /\ inflight = [t \in CacheTasks |-> NoCall]
  /\ origin = [m \in Methods \cup FingerprintMethods |-> NoOrigin]
  /\ lastCall = NoCall

shellIdle == rateIdle /\ cacheIdle

\* The method of task t throws before any request is sent.
Throws(t, call, outcome, limits) ==
  /\ lastCall' = Ended(call, outcome, null, 0, responseCache, limits)
  /\ UNCHANGED <<responseCache, network, inflight, origin>>

\* The method of task t goes on to its backend call, leaving the cache as given.
Proceeds(t, call, cache) ==
  /\ inflight' = [inflight EXCEPT ![t] = call]
  /\ responseCache' = cache
  /\ UNCHANGED <<network, origin, lastCall>>

\* const cached = this.getCachedResult(cacheKey); if (cached) return cached;
Lookup(t, call, c, limits) ==
  IF c.result # null
  THEN /\ lastCall' = Ended(call, "ok", c.result, 0, c.cache, limits)
       /\ responseCache' = c.cache
       /\ UNCHANGED <<network, inflight, origin>>
  ELSE Proceeds(t, call, c.cache)

\* AfterCheck with the cache consulted first: a cached result is returned
\* without a check of the limiter.
AfterCheckCacheFirst(t, call, r) ==
  IF /\ usesCache(call.provider, call.op)
     /\ getCachedResult(responseCache,
                        generateCacheKey(call.provider, call.request), now).result # null
  THEN /\ UNCHANGED <<rateLimitMap, window, lastCheck>>
       /\ Lookup(t, call,
                 getCachedResult(responseCache,
                                 generateCacheKey(call.provider, call.request), now),
                 rateLimitMap)
  ELSE /\ rateLimitMap' = r.limits
       /\ UNCHANGED <<window, lastCheck>>
       /\ IF r.threw THEN Throws(t, call, "rate-limited", r.limits)
          ELSE IF usesCache(call.provider, call.op)
          THEN Lookup(t, call,
                      getCachedResult(responseCache,
                                      generateCacheKey(call.provider, call.request), now),
                      r.limits)
          ELSE Proceeds(t, call, responseCache)

\* From `await this.checkRateLimit()`, whose result is r, to the backend call.
AfterCheck(t, call, r) ==
  /\ rateLimitMap' = r.limits
  /\ UNCHANGED <<window, lastCheck>>
  /\ IF r.threw THEN Throws(t, call, "rate-limited", r.limits)
     ELSE IF usesCache(call.provider, call.op)
     THEN Lookup(t, call,
                 getCachedResult(responseCache,
                                 generateCacheKey(call.provider, call.request), now),
                 r.limits)
     ELSE Proceeds(t, call, responseCache)

\* provider.generate / provider.edit up to its backend call.  The statements
\* before the backend call touch the limiter, then the cache, and a step of
\* another task between them would touch neither differently before or after:
\* they are one step.
startCall(t, call) ==
  /\ inflight[t] = NoCall
  /\ network < MaxResults
  /\ IF ~checksRateLimit(call.provider, call.op)
     THEN /\ Proceeds(t, call, responseCache)
          /\ UNCHANGED <<rateLimitMap, window, lastCheck>>
     ELSE IF validatePrompt(call.provider, call.request.prompt).threw
     THEN /\ Throws(t, call, "invalid-input", rateLimitMap)
          /\ UNCHANGED <<rateLimitMap, window, lastCheck>>
     ELSE AfterCheck(t, call, checkRateLimit(rateLimitMap, call.provider, now))
  /\ UNCHANGED <<now, running, orchVars, auxVars>>

providerCalled ==
  \E t \in CacheTasks, m \in Methods :
    startCall(t, Invocation(m[1], m[2], m[3], now, responseCache, NotFollowed))

variantCalled ==
  \E t \in CacheTasks, m \in FingerprintMethods :
    startCall(t, Invocation(m[1], m[2], m[3], now, responseCache, rateLimitMap[m[1]]))

\* The image a backend produces: no two backend results are the same.
Produced(call, serial) == [provider |-> call.provider, serial |-> serial]

\* settledCache with the entry written whatever the outcome.
settledCacheAnyOutcome(call, e) ==
  IF usesCache(call.provider, call.op)
  THEN cacheResult(responseCache, generateCacheKey(call.provider, call.request),
                   Produced(call, network + 1), now)
  ELSE responseCache

\* The cache after the backend call of `call` ended as e says: a result is
\* cached by the methods that use the cache, nothing else is.
settledCache(call, e) ==
  IF e.outcome = "ok" /\ usesCache(call.provider, call.op)
  THEN cacheResult(responseCache, generateCacheKey(call.provider, call.request),
                   Produced(call, network + 1), now)
  ELSE responseCache

\* The backend call of task t ends as e says.
settleCall(t, call, e) ==
  /\ call # NoCall
  /\ inflight' = [inflight EXCEPT ![t] = NoCall]
  /\ responseCache' = settledCache(call, e)
  /\ IF e.outcome = "ok"
     THEN /\ network' = network + 1
          /\ origin' = [origin EXCEPT ![<<call.provider, call.op, call.request>>] =
                          [result |-> Produced(call, network + 1), doneAt |-> now]]
          /\ lastCall' = Ended(call, "ok", Produced(call, network + 1), e.fetches,
                               settledCache(call, e), rateLimitMap)
     ELSE /\ lastCall' = Ended(call, e.outcome, null, e.fetches, settledCache(call, e),
                               rateLimitMap)
          /\ UNCHANGED <<network, origin>>
  /\ UNCHANGED <<rateVars, orchVars, auxVars>>

providerSettles ==
  \E t \in CacheTasks :
    \E e \in Endings(inflight[t].provider, IF inflight[t] = NoCall THEN "none" ELSE inflight[t].op) :
      settleCall(t, inflight[t], e)

\* Date.now() moves on.
tickCache ==
  /\ now < CacheHorizon
  /\ now' = now + CacheTick
  /\ UNCHANGED <<rateLimitMap, running, window, lastCheck, orchVars, cacheVars, auxVars>>

(***************************************************************************)
(* executeWithRetry, step by step: the loop over the attempts, the         *)
(* operation's invocations and the sleeps between them.                    *)
(***************************************************************************)
INITIAL_RETRY_DELAY == 1000

MaxRetryDelay == 10000

\* The largest retry budget the model runs.
MaxBudget == 6

\* What one invocation of the operation can end with: a value, a ProviderError
\* marked retryable, one not marked so, or a thrown value of another class.
FnOutcomes == {"ok", "retryable", "nonretryable", "other"}

FnError(o) ==
  IF o = "other" THEN PlainError("operation-failed", "TEST")
  ELSE ProviderError("operation-failed", "TEST", o = "retryable")

RECURSIVE Pow2(_)
Pow2(n) == IF n = 0 THEN 1 ELSE 2 * Pow2(n - 1)

Min(a, b) == IF a <= b THEN a ELSE b

\* const delay = Math.min(INITIAL_RETRY_DELAY * Math.pow(2, attempt), 10000);
retryDelay(attempt) == Min(INITIAL_RETRY_DELAY * Pow2(attempt), MaxRetryDelay)

NoRetry ==
  [pc |-> "idle", retries |-> 0, attempt |-> 0, lastError |-> NoError,
   events |-> <<>>, result |-> undefined, error |-> NoError]

retryIdle == retry = NoRetry


Invoked(o) == [kind |-> "invoke", outcome |-> o, delay |-> 0]

Slept(ms) == [kind |-> "sleep", outcome |-> "none", delay |-> ms]

\* moreAttempts with the loop ending one attempt early.
moreAttemptsOneFewer(r) == r.attempt < r.retries - 1

\* for (let attempt = 0; attempt < retries; attempt++)
moreAttempts(r) == r.attempt < r.retries

\* rethrows with no error taken as non-retryable.
rethrowsNothing(error) == FALSE

\* if (error instanceof ProviderError && !error.isRetryable) throw error;
rethrows(error) == error.name = "ProviderError" /\ ~error.isRetryable

\* sleepsBeforeNext with a sleep after the last attempt too.
sleepsAfterEvery(r) == r.attempt < r.retries

\* if (attempt < retries - 1): a sleep comes before the next attempt.
sleepsBeforeNext(r) == r.attempt < r.retries - 1

\* executeWithRetry(fn, retries) is called.
retryCalled ==
  /\ retry.pc = "idle"
  /\ \E n \in 0..MaxBudget :
       retry' = [NoRetry EXCEPT !.pc = "loop", !.retries = n]
  /\ UNCHANGED <<orchVars, shellVars, pollVars, selVars, regVars, sweepVars>>

\* The catch block on error, after the invocation was recorded in r.
catchRetry(r, error) ==
  IF rethrows(error)
  THEN [r EXCEPT !.pc = "threw", !.lastError = error, !.error = error]
  ELSE IF sleepsBeforeNext(r)
  THEN [r EXCEPT !.pc = "sleeping", !.lastError = error]
  ELSE [r EXCEPT !.pc = "loop", !.lastError = error, !.attempt = @ + 1]

\* try { return await fn(); } catch (error) { ... }: one invocation settles.
retryAttempt ==
  /\ retry.pc = "loop"
  /\ moreAttempts(retry)
  /\ \E o \in FnOutcomes :
       retry' = IF o = "ok"
                THEN [retry EXCEPT !.pc = "returned", !.result = "success",
                                   !.events = Append(@, Invoked(o))]
                ELSE catchRetry([retry EXCEPT !.events = Append(@, Invoked(o))],
                                FnError(o))
  /\ UNCHANGED <<orchVars, shellVars, pollVars, selVars, regVars, sweepVars>>

\* await new Promise(resolve => setTimeout(resolve, delay)); then attempt++.
retrySleep ==
  /\ retry.pc = "sleeping"
  /\ retry' = [retry EXCEPT !.pc = "loop", !.attempt = @ + 1,
                            !.events = Append(@, Slept(retryDelay(retry.attempt)))]
  /\ UNCHANGED <<orchVars, shellVars, pollVars, selVars, regVars, sweepVars>>

\* throw lastError || new ProviderError(`Failed after ${retries} retries`, ...)
retryExhausted ==
  /\ retry.pc = "loop"
  /\ ~moreAttempts(retry)
  /\ retry' = [retry EXCEPT !.pc = "threw",
                            !.error = IF retry.lastError # NoError THEN retry.lastError
                                      ELSE ProviderError("failed-after-retries", "TEST", FALSE)]
  /\ UNCHANGED <<orchVars, shellVars, pollVars, selVars, regVars, sweepVars>>

\* The caller has the value or the error; the next run can start.
retryDone ==
  /\ retry.pc \in {"returned", "threw"}
  /\ retry' = NoRetry
  /\ UNCHANGED <<orchVars, shellVars, pollVars, selVars, regVars, sweepVars>>

NextRetry ==
  \/ retryCalled
  \/ retryAttempt
  \/ retrySleep
  \/ retryExhausted
  \/ retryDone

(***************************************************************************)
(* Timeouts and polling of a provider call (base.js createTimeout and      *)
(* cleanupController; generate of openai.js, bfl.js, fal.js and            *)
(* replicate.js).  One call is followed from the point where it arms its   *)
(* first timer.  BFL and FAL run this body as the function given to        *)
(* executeWithRetry: one run of that function is followed.                 *)
(*                                                                         *)
(* The clock is not modelled.  A timer is armed, cleared or fired; it      *)
(* fires as the outcome of a request that was given its signal (the        *)
(* request is then aborted), which covers a timer that fired during the    *)
(* sleep before that request.  The sleeps between polls change no state.   *)
(***************************************************************************)
PollProviders == {"OPENAI", "BFL", "REPLICATE", "FAL"}

\* const maxAttempts = 30 (bfl.js, fal.js); maxAttempts = 60 (replicate.js)
maxAttempts(provider) == IF provider = "REPLICATE" THEN 60 ELSE 30

\* The methods that release their controller in a finally block.
cleansUp(provider) == provider \in {"BFL", "FAL"}

\* fetch(...) of fal.js is given no signal; request(...) of the others is
\* given controller.signal.  0 stands for no signal.
submitSignal(j) == IF j.provider = "FAL" THEN 0 ELSE j.controller

\* pollPrediction of replicate.js creates a controller in every iteration.
armsPerPoll(provider) == provider = "REPLICATE"

\* The signal given to the status request that j is about to send.
pollSignal(j) ==
  CASE j.provider = "BFL" -> j.controller
    [] j.provider = "REPLICATE" -> Len(j.timers) + 1
    [] OTHER -> 0

\* downloadImage of replicate.js creates its own controller; the global
\* fetch of openai.js and bfl.js is given no signal.
downloadSignal(j) == IF j.provider = "REPLICATE" THEN Len(j.timers) + 1 ELSE 0

NoJob ==
  [pc |-> "idle", provider |-> "NONE", timers |-> <<>>, controller |-> 0,
   requests |-> <<>>, attempts |-> 0, answers |-> <<>>,
   threw |-> FALSE, error |-> NoError, armedAtExit |-> {}]

pollIdle == job = NoJob


\* createTimeout: setTimeout(() => controller.abort(), ms)
createTimeout(timers) == Append(timers, "armed")

\* The timers once signal (when it is one) is armed, and once it has fired.
armedFor(timers, signal) ==
  IF signal = Len(timers) + 1 THEN createTimeout(timers) ELSE timers

firedFor(timers, signal) == [armedFor(timers, signal) EXCEPT ![signal] = "fired"]

\* cleanupController: clearTimeout(timeoutId); clearing a timer that has
\* fired changes nothing.
cleanupController(timers, controller) ==
  IF controller \in DOMAIN timers /\ timers[controller] = "armed"
  THEN [timers EXCEPT ![controller] = "cleared"]
  ELSE timers

Armed(timers) == {t \in DOMAIN timers : timers[t] = "armed"}

Sent(kind, signal) == [kind |-> kind, signal |-> signal]

\* The timers of j when the call exits: the finally block, where there is one.
timersAtExit(j, timers) ==
  IF cleansUp(j.provider) THEN cleanupController(timers, j.controller) ELSE timers

\* The call returns its result (threw = FALSE) or throws error.
Exited(j, timers, threw, error) ==
  [j EXCEPT !.pc = "exited",
            !.timers = timersAtExit(j, timers),
            !.threw = threw,
            !.error = error,
            !.armedAtExit = Armed(timersAtExit(j, timers))]

\* The catch block: an error that is no ProviderError (here the abort of a
\* request) is wrapped into one.
Aborted(j, signal) ==
  Exited(j, firedFor(j.timers, signal), TRUE,
         ProviderError("request-failed", j.provider, FALSE))

\* What the endpoint can answer to the submission.
\*   error    a status code other than the expected one
\*   queued   a job id to poll
\*   inline   the result, the image itself in it
\*   url      the result, with the address of the image to download
\*   aborted  the signal of the request fired
SubmitAnswers(j) ==
  {"error"}
    \cup (IF submitSignal(j) # 0 THEN {"aborted"} ELSE {})
    \cup (IF j.provider = "OPENAI" THEN {"inline", "url"} ELSE {})
    \cup (IF j.provider = "BFL" THEN {"queued", "inline", "url"} ELSE {})
    \cup (IF j.provider = "FAL" THEN {"queued", "url"} ELSE {})
    \cup (IF j.provider = "REPLICATE" THEN {"queued"} ELSE {})

\* What the endpoint can answer to a status request.
\*   pending      neither finished nor failed
\*   ready        finished, the image inline
\*   ready-url    finished, the image to be downloaded
\*   ready-empty  finished, no image in the answer
\*   failed       the job failed
\*   error        a status code that is not a success (fal.js, replicate.js)
\*   aborted      the signal of the request fired
StatusAnswers(j) ==
  {"pending", "failed"}
    \cup (IF pollSignal(j) # 0 THEN {"aborted"} ELSE {})
    \cup (IF j.provider = "BFL" THEN {"ready", "ready-url", "ready-empty"} ELSE {})
    \cup (IF j.provider = "FAL" THEN {"ready-url", "ready-empty", "error"} ELSE {})
    \cup (IF j.provider = "REPLICATE" THEN {"ready-url", "ready-empty", "error"} ELSE {})

DownloadAnswers(j) ==
  {"ok", "error"} \cup (IF downloadSignal(j) # 0 THEN {"aborted"} ELSE {})

\* const controller = this.createTimeout(...), the first statement of the
\* body of each of the four methods.
callStarts ==
  /\ job.pc = "idle"
  /\ \E provider \in PollProviders :
       job' = [job EXCEPT !.pc = "submit",
                          !.provider = provider,
                          !.timers = createTimeout(job.timers),
                          !.controller = Len(job.timers) + 1]
  /\ UNCHANGED <<orchVars, shellVars, retryVars, selVars, regVars, sweepVars>>

\* j with the request of the given kind and signal sent.
Requested(j, kind, signal) ==
  [j EXCEPT !.requests = Append(j.requests, Sent(kind, signal)),
            !.timers = armedFor(j.timers, signal)]

\* The method after the answer to its submission.
afterSubmit(j, a) ==
  CASE a = "aborted" -> Aborted(j, submitSignal(j))
    [] a = "error" -> Exited(j, j.timers, TRUE, ProviderError("api-error", j.provider, TRUE))
    [] a = "inline" -> Exited(j, j.timers, FALSE, NoError)
    [] a = "url" -> [j EXCEPT !.pc = "download"]
    [] OTHER -> [j EXCEPT !.pc = "poll"]

submitAnswered ==
  /\ job.pc = "submit"
  /\ \E a \in SubmitAnswers(job) :
       job' = afterSubmit(Requested(job, "submit", submitSignal(job)), a)
  /\ UNCHANGED <<orchVars, shellVars, retryVars, selVars, regVars, sweepVars>>

\* for (let i = 0; i < maxAttempts; i++), one more status request allowed
pollsAgainOnceMore(j) == j.attempts <= maxAttempts(j.provider)

pollsAgain(j) == j.attempts < maxAttempts(j.provider)

\* The error thrown for a job that failed: BFL and FAL throw from the
\* loop, replicate.js returns the answer and generate throws.
jobFailed(j) ==
  ProviderError("generation-failed", j.provider, j.provider = "FAL")

\* The method after the answer a to the status request sent with signal.
afterStatus(j, a, signal) ==
  CASE a = "aborted" -> Aborted(j, signal)
    [] a = "error" -> Exited(j, j.timers, TRUE, ProviderError("status-error", j.provider, TRUE))
    [] a = "failed" -> Exited(j, j.timers, TRUE, jobFailed(j))
    [] a = "ready" -> Exited(j, j.timers, FALSE, NoError)
    [] a = "ready-empty" -> Exited(j, j.timers, TRUE, ProviderError("no-image", j.provider, FALSE))
    [] a = "ready-url" -> [j EXCEPT !.pc = "download"]
    [] OTHER -> [j EXCEPT !.attempts = j.attempts + 1]

Answered(j, a) == [j EXCEPT !.answers = Append(j.answers, a)]

\* One iteration of the poll loop.
pollStatus ==
  /\ job.pc = "poll"
  /\ pollsAgain(job)
  /\ \E a \in StatusAnswers(job) :
       job' = afterStatus(Answered(Requested(job, "status", pollSignal(job)), a),
                          a, pollSignal(job))
  /\ UNCHANGED <<orchVars, shellVars, retryVars, selVars, regVars, sweepVars>>

\* The throw after the loop.
pollExhausted ==
  /\ job.pc = "poll"
  /\ ~pollsAgain(job)
  /\ job' = Exited(job, job.timers, TRUE, ProviderError("poll-timeout", job.provider, TRUE))
  /\ UNCHANGED <<orchVars, shellVars, retryVars, selVars, regVars, sweepVars>>

afterDownload(j, a, signal) ==
  CASE a = "aborted" -> Aborted(j, signal)
    [] a = "error" -> Exited(j, j.timers, TRUE, ProviderError("download-failed", j.provider, TRUE))
    [] OTHER -> Exited(j, j.timers, FALSE, NoError)

\* The download of the image the answer points to.
downloadAnswered ==
  /\ job.pc = "download"
  /\ \E a \in DownloadAnswers(job) :
       job' = afterDownload(Requested(job, "download", downloadSignal(job)),
                            a, downloadSignal(job))
  /\ UNCHANGED <<orchVars, shellVars, retryVars, selVars, regVars, sweepVars>>

NextPoll ==
  \/ callStarts
  \/ submitAnswered
  \/ pollStatus
  \/ pollExhausted
  \/ downloadAnswered

(***************************************************************************)
(* The provider selector as it runs (services/providerSelector): the       *)
(* keyword index is module state, built by the first classification that   *)
(* gets past the empty-prompt test, and every later call reads it.         *)
(***************************************************************************)
SelectorPrompts ==
  {"logo for a coffee shop with text", "sunset over hills",
   "quick draft of a dragon", "   "}

\* The arrays of available providers the selector is called with: up to
\* MaxAvailable names, in the order getConfiguredProviders lists them.
MaxAvailable == 2

AvailablePool == {"MOCK", "OPENAI", "IDEOGRAM", "RECRAFT"}

AvailableLists ==
  {FilterSeq(allNames, S) :
     S \in {s \in SUBSET AvailablePool : Cardinality(s) <= MaxAvailable}}

ExplicitProviders == {undefined, "OPENAI"}

\* keywordToUseCases.size once the index is filled.
IndexSize == Len(keywordToUseCases)

\* The sizes the index has: empty, or filled.
IndexSizes == {0, IndexSize}

\* buildKeywordIndex that fills an empty index and clears a filled one.
buildKeywordIndexOrClear(size) ==
  IF size = 0 THEN IndexSize ELSE 0

\* if (keywordToUseCases.size === 0) { ... fill it ... }: the size it leaves.
buildKeywordIndex(size) ==
  IF size = 0 THEN IndexSize ELSE size

\* analyzePrompt from `const lower` on, for each size of the index (its first
\* size entries, in insertion order) and each prompt, tabulated.
AnalysisTable ==
  {[size |-> size, prompt |-> prompt,
    result |-> AnalyzeMatched(SelectSeq(SubSeq(keywordToUseCases, 1, size),
                 LAMBDA e : Includes(toLowerCase(prompt), e.keyword)))] :
     size \in IndexSizes, prompt \in SelectorPrompts}

analyzeIndexed(size, prompt) ==
  (CHOOSE r \in AnalysisTable : r.size = size /\ r.prompt = prompt).result

\* selectProvider from `if (analysis)` on, for each size of the index, prompt
\* and non-empty array of available providers, tabulated.
SelectionTable ==
  {[size |-> size, prompt |-> prompt, availableProviders |-> availableProviders,
    result |-> selectAnalysed(analyzeIndexed(size, prompt), prompt, availableProviders)] :
     size \in IndexSizes, prompt \in SelectorPrompts,
     availableProviders \in AvailableLists \ {<<>>}}

selectIndexed(size, prompt, availableProviders) ==
  (CHOOSE r \in SelectionTable :
     /\ r.size = size
     /\ r.prompt = prompt
     /\ r.availableProviders = availableProviders).result

\* analyzePrompt called with the index at the given size: the size it leaves
\* (index), the size it read the index at (read, 0 when it read nothing), and
\* what it returns.  An empty prompt returns before the index is touched.
Analyzed(size, prompt) ==
  IF prompt = "" \/ IsBlank(prompt)
  THEN [index |-> size, read |-> 0, result |-> null]
  ELSE [index |-> buildKeywordIndex(size), read |-> buildKeywordIndex(size),
        result |-> analyzeIndexed(buildKeywordIndex(size), prompt)]

NotAnalysed == [useCase |-> "none"]

\* repeated: the prompt had been classified before this call; between: the call
\* before this one classified another prompt.
NoAnalysis ==
  [called |-> FALSE, prompt |-> "", result |-> null, repeated |-> FALSE,
   between |-> FALSE]

NoSelect ==
  [called |-> FALSE, prompt |-> "", availableProviders |-> <<>>,
   explicitProvider |-> undefined, analysed |-> FALSE, analysis |-> null,
   result |-> undefined]

selIdle ==
  /\ keywordIndex = 0
  /\ analyses = [p \in SelectorPrompts |-> NotAnalysed]
  /\ lastAnalysis = NoAnalysis
  /\ lastSelect = NoSelect


\* The effect of the classification a of prompt on the selector's state.
Classified(prompt, a) ==
  /\ keywordIndex' = a.index
  /\ lastAnalysis' = [called |-> TRUE, prompt |-> prompt, result |-> a.result,
                      repeated |-> analyses[prompt] # NotAnalysed,
                      between |-> lastAnalysis.called /\ lastAnalysis.prompt # prompt]
  /\ analyses' = IF analyses[prompt] = NotAnalysed
                 THEN [analyses EXCEPT ![prompt] = a.result]
                 ELSE analyses

\* analyzePrompt(prompt), called from outside the selector.
analyzeCalled ==
  /\ \E prompt \in SelectorPrompts : Classified(prompt, Analyzed(keywordIndex, prompt))
  /\ UNCHANGED <<lastSelect, orchVars, shellVars, retryVars, pollVars, regVars, sweepVars>>

Selected(prompt, availableProviders, explicitProvider, analysed, analysis, result) ==
  [called |-> TRUE, prompt |-> prompt, availableProviders |-> availableProviders,
   explicitProvider |-> explicitProvider, analysed |-> analysed,
   analysis |-> analysis, result |-> result]

\* selectProvider past its two early returns, with the classification a.
selectClassified(prompt, availableProviders, explicitProvider, a) ==
  /\ Classified(prompt, a)
  /\ lastSelect' = Selected(prompt, availableProviders, explicitProvider, TRUE, a.result,
                            selectIndexed(a.read, prompt, availableProviders))

\* selectProvider(prompt, availableProviders, explicitProvider)
selectProviderCalled(prompt, availableProviders, explicitProvider) ==
  IF Len(availableProviders) = 0
  THEN /\ lastSelect' = Selected(prompt, availableProviders, explicitProvider,
                                 FALSE, null, undefined)
       /\ UNCHANGED <<keywordIndex, analyses, lastAnalysis>>
  ELSE IF explicitApplies(availableProviders, explicitProvider)
  THEN /\ lastSelect' = Selected(prompt, availableProviders, explicitProvider,
                                 FALSE, null, explicitProvider)
       /\ UNCHANGED <<keywordIndex, analyses, lastAnalysis>>
  ELSE selectClassified(prompt, availableProviders, explicitProvider,
                        Analyzed(keywordIndex, prompt))

selectCalled ==
  /\ \E prompt \in SelectorPrompts, availableProviders \in AvailableLists,
        explicitProvider \in ExplicitProviders :
       selectProviderCalled(prompt, availableProviders, explicitProvider)
  /\ UNCHANGED <<orchVars, shellVars, retryVars, pollVars, regVars, sweepVars>>

NextSelect ==
  \/ analyzeCalled
  \/ selectCalled

(***************************************************************************)
(* cacheResult on a cache that reaches the cleanup threshold.  The cache   *)
(* holds up to MaxSweepKeys keys, SweepPrefilled of them cached at time 0  *)
(* when the model starts; the clock moves by the time to live.             *)
(***************************************************************************)
MaxSweepKeys == 102

\* The clock stops when an entry cached at the start can be swept.
SweepHorizon == 2 * CACHE_TTL

SweepPrefilled == 97

SweepKeys == 1..MaxSweepKeys

SweepResult == [provider |-> "BFL", serial |-> 0]

NoInsert == [called |-> FALSE, key |-> 0, at |-> 0, before |-> <<>>]

sweepIdle ==
  /\ store = [k \in SweepKeys |->
                IF k <= SweepPrefilled THEN [result |-> SweepResult, timestamp |-> 0]
                ELSE NoEntry]
  /\ clock = 0
  /\ lastInsert = NoInsert

\* The keys of the entries the cache holds.
Present(cache) == {k \in DOMAIN cache : cache[k] # NoEntry}

\* The first key from k on that is not in the cache, 0 when all are.
RECURSIVE FirstFree(_, _)
FirstFree(cache, k) ==
  IF k > MaxSweepKeys THEN 0
  ELSE IF cache[k] = NoEntry THEN k
  ELSE FirstFree(cache, k + 1)

\* The keys a call inserts under: the first key of the cache, and the first
\* key that is not in it.
InsertKeys(cache) == {1} \cup ({FirstFree(cache, 1)} \ {0})

\* this.cacheResult(cacheKey, result)
cacheResultCalled ==
  /\ \E key \in InsertKeys(store) :
       /\ store' = cacheResult(store, key, SweepResult, clock)
       /\ lastInsert' = [called |-> TRUE, key |-> key, at |-> clock, before |-> store]
  /\ UNCHANGED <<clock, orchVars, shellVars, retryVars, pollVars, selVars, regVars>>

\* Date.now() moves on by the time to live.
tickSweep ==
  /\ clock < SweepHorizon
  /\ clock' = clock + CACHE_TTL
  /\ UNCHANGED <<store, lastInsert, orchVars, shellVars, retryVars, pollVars, selVars,
                 regVars>>

NextSweep ==
  \/ cacheResultCalled
  \/ tickSweep

(***************************************************************************)
(* The provider registry as it runs (Config.providers, createProvider,     *)
(* getProvider, getAllProviders).  The registry is followed for the names  *)
(* of RegistryNames; an instance is identified by the number of the        *)
(* constructor call that made it.                                          *)
(***************************************************************************)
RegistryNames == <<"MOCK", "OPENAI", "BFL", "FAL">>

\* The names getProvider is called with.
LookupNames ==
  {"MOCK", "mock", "OPENAI", "openai", "OpenAI", "BFL", "bfl", "FAL", "Fal", "bogus"}

regIdle ==
  /\ providers = [n \in Range(RegistryNames) |-> 0]
  /\ instances = 0
  /\ firstStored = [n \in Range(RegistryNames) |-> 0]
  /\ lastLookup = [called |-> FALSE, name |-> "", returned |-> 0, constructed |-> FALSE]
  /\ lastConfigured = [called |-> FALSE, name |-> "", key |-> "", isTestEnv |-> FALSE,
                       result |-> FALSE]
  /\ lastValidated = [called |-> FALSE, name |-> "", prompt |-> "",
                      outcome |-> Return("")]

auxIdle == retryIdle /\ pollIdle /\ selIdle /\ regIdle /\ sweepIdle

\* this.providers.get(name) that finds nothing.
existingNone(map, name) == 0

\* const existing = this.providers.get(name): 0 for undefined.
existing(map, name) == IF name \in DOMAIN map THEN map[name] ELSE 0

\* The switch of createProvider has a case for name.
hasClass(name) == InSeq(name, RegistryNames)

\* createProvider(name) on the registry reg = [providers, instances,
\* firstStored]: the registry it leaves and the instance it returns (0 for
\* undefined).
createProviderIn(reg, name) ==
  IF existing(reg.providers, name) # 0
  THEN [reg EXCEPT !.returned = existing(reg.providers, name)]
  ELSE IF hasClass(name)
  THEN [providers |-> [reg.providers EXCEPT ![name] = reg.instances + 1],
        instances |-> reg.instances + 1,
        firstStored |-> IF reg.firstStored[name] = 0
                        THEN [reg.firstStored EXCEPT ![name] = reg.instances + 1]
                        ELSE reg.firstStored,
        returned |-> reg.instances + 1]
  ELSE [reg EXCEPT !.returned = 0]

Registry ==
  [providers |-> providers, instances |-> instances, firstStored |-> firstStored,
   returned |-> 0]

\* The registry becomes reg.
Stored(reg) ==
  /\ providers' = reg.providers
  /\ instances' = reg.instances
  /\ firstStored' = reg.firstStored

\* getProvider(name): createProvider(name.toUpperCase())
getProviderLooked(name, reg) ==
  /\ Stored(reg)
  /\ lastLookup' = [called |-> TRUE, name |-> name, returned |-> reg.returned,
                    constructed |-> reg.instances # instances]

getProviderCalled ==
  /\ \E name \in LookupNames :
       getProviderLooked(name, createProviderIn(Registry, toUpperCase(name)))
  /\ UNCHANGED <<lastConfigured, lastValidated, orchVars, shellVars, retryVars, pollVars, selVars, sweepVars>>

\* for (const name of allNames) this.createProvider(name), up to the n-th name.
RECURSIVE createAll(_, _)
createAll(reg, n) ==
  IF n = 0 THEN reg ELSE createProviderIn(createAll(reg, n - 1), RegistryNames[n])

\* getAllProviders / getConfiguredProviders: every provider is created.
getAllProvidersCalled ==
  /\ Stored(createAll(Registry, Len(RegistryNames)))
  /\ UNCHANGED <<lastLookup, lastConfigured, lastValidated, orchVars, shellVars, retryVars, pollVars, selVars, sweepVars>>

(***************************************************************************)
(* Credentials: validateApiKey of the base class and isConfigured of each  *)
(* provider.  A credential is the value of the provider's environment      *)
(* variable, undefined when the variable is not set.                       *)
(***************************************************************************)
API_KEY_MIN_LENGTH == 10

placeholders == <<"your-api-key", "xxx", "placeholder", "test", "demo">>

\* The values of a credential that are followed.
ApiKeys ==
  {undefined, "", "short", "your-api-key-here", "placeholder", "test-key-12345",
   "sk-DEMO-1234567", "valid-api-key-12345"}

\* key.startsWith(prefix)
startsWith(key, prefix) ==
  Len(key) >= Len(prefix) /\ SubSeq(key, 1, Len(prefix)) = prefix

\* !key
Falsy(key) == key = undefined \/ key = ""

validateApiKey(key, isTestEnv) ==
  IF Falsy(key) THEN FALSE
  ELSE IF Len(key) < API_KEY_MIN_LENGTH THEN FALSE
  ELSE IF isTestEnv /\ startsWith(key, "test-") THEN TRUE
  ELSE IF \E i \in 1..Len(placeholders) : Includes(toLowerCase(key), placeholders[i])
  THEN FALSE
  ELSE TRUE

\* isConfigured() of the provider name whose credential is key.
isConfiguredWith(name, key, isTestEnv) ==
  IF name = "MOCK" THEN TRUE
  ELSE IF name = "RECRAFT" THEN validateApiKey(key, isTestEnv)
  ELSE ~Falsy(key)

isConfiguredCalled ==
  /\ \E name \in ProviderNames, key \in ApiKeys, isTestEnv \in BOOLEAN :
       lastConfigured' = [called |-> TRUE, name |-> name, key |-> key,
                          isTestEnv |-> isTestEnv,
                          result |-> isConfiguredWith(name, key, isTestEnv)]
  /\ UNCHANGED <<providers, instances, firstStored, lastLookup, lastValidated>>
  /\ UNCHANGED <<orchVars, shellVars, retryVars, pollVars, selVars, sweepVars>>

NextRegistry ==
  \/ getProviderCalled
  \/ getAllProvidersCalled

(***************************************************************************)
(* validatePrompt of the base class, called with prompts at and around     *)
(* the maximum length.                                                     *)
(***************************************************************************)
RECURSIVE repeat(_, _)
\* s.repeat(n)
repeat(s, n) ==
  IF n = 0 THEN ""
  ELSE IF n % 2 = 1 THEN s \o repeat(s, n - 1)
  ELSE repeat(s \o s, n \div 2)

ValidatedPrompts ==
  {"", " ", "   ", "a", "valid prompt", "  padded  ",
   repeat("a", MAX_PROMPT_LENGTH - 1), repeat("a", MAX_PROMPT_LENGTH),
   repeat("a", MAX_PROMPT_LENGTH + 1), repeat(" ", MAX_PROMPT_LENGTH + 1)}

validatePromptCalled ==
  /\ \E name \in ProviderNames, prompt \in ValidatedPrompts :
       lastValidated' = [called |-> TRUE, name |-> name, prompt |-> prompt,
                         outcome |-> validatePrompt(name, prompt)]
  /\ UNCHANGED <<providers, instances, firstStored, lastLookup, lastConfigured>>
  /\ UNCHANGED <<orchVars, shellVars, retryVars, pollVars, selVars, sweepVars>>

NextPrompt ==
  \/ validatePromptCalled

NextKeys ==
  \/ isConfiguredCalled
(***************************************************************************)
(* Specifications of the provider shell.                                   *)
(***************************************************************************)
InitShell ==
  /\ env = BareEnv
  /\ orchIdle
  /\ shellIdle
  /\ auxIdle

NextRate ==
  \/ requestStarts
  \/ requestSettles
  \/ tick

SpecRate == InitShell /\ [][NextRate]_vars

NextCache ==
  \/ providerCalled
  \/ providerSettles
  \/ tickCache

SpecCache == InitShell /\ [][NextCache]_vars

SpecRetry == InitShell /\ [][NextRetry]_vars


SpecPoll == InitShell /\ [][NextPoll]_vars

SpecSelect == InitShell /\ [][NextSelect]_vars

SpecRegistry == InitShell /\ [][NextRegistry]_vars

SpecKeys == InitShell /\ [][NextKeys]_vars

SpecPrompt == InitShell /\ [][NextPrompt]_vars

NextFingerprint ==
  \/ variantCalled
  \/ providerSettles
  \/ tickCache

SpecFingerprint == InitShell /\ [][NextFingerprint]_vars

SpecSweep == InitShell /\ [][NextSweep]_vars
(***************************************************************************)
(* The request handlers as a state machine: one request at a time, from    *)
(* the provider resolution to the answer.                                  *)
(***************************************************************************)
InitOrch ==
  /\ env \in Envs
  /\ orchIdle
  /\ shellIdle
  /\ auxIdle

\* The synchronous head of a handler: parse, resolve the provider (r), check
\* the capabilities, and start provider.generate / provider.edit.
Dispatch(i, r) ==
  /\ input' = i
  /\ caught' = NoError
  /\ IF r.threw
     THEN /\ pc' = "done"
          /\ calls' = <<>>
          /\ response' = Failure(r.error)
     ELSE /\ pc' = "primary"
          /\ calls' = <<Call(r.value, i.op)>>
          /\ response' = NoResponse
  /\ UNCHANGED <<env, shellVars, auxVars>>

handleGenerate ==
  /\ pc = "idle"
  /\ \E i \in GenerateInputs : Dispatch(i, resolve(env, i))

handleEdit ==
  /\ pc = "idle"
  /\ \E i \in EditInputs : Dispatch(i, resolve(env, i))

\* try: provider.generate resolved.
generateResolved ==
  /\ pc = "primary"
  /\ input.op = "generate"
  /\ "ok" \in Outcomes(calls[1].provider, "generate")
  /\ calls' = [calls EXCEPT ![1].status = "ok"]
  /\ response' = Success(calls[1].provider, ResultWarnings(calls[1].provider))
  /\ pc' = "done"
  /\ UNCHANGED <<env, input, caught, shellVars, auxVars>>

\* const fallback = Config.getDefaultProvider();
\* if (fallback.name !== provider.name) call it, else throw error.
tryFallback(provider, error, fallback) ==
  IF fallback.threw THEN Throw(fallback.error)
  ELSE IF fallback.value # provider THEN Return(fallback.value)
  ELSE Throw(error)

\* catchGenerate without the isRetryable test: every ProviderError falls back.
catchGenerateAnyError(e, provider, error) ==
  IF error.name = "ProviderError" /\ ~e.DISABLE_FALLBACK
  THEN tryFallback(provider, error, getDefaultProvider(e))
  ELSE Throw(error)

\* catchGenerate without the DISABLE_FALLBACK test.
catchGenerateIgnoringDisable(e, provider, error) ==
  IF error.name = "ProviderError" /\ error.isRetryable
  THEN tryFallback(provider, error, getDefaultProvider(e))
  ELSE Throw(error)

\* The decision of the catch block: Return(name) to call the fallback provider
\* name, Throw(e) to let e leave the handler.
catchGenerate(e, provider, error) ==
  IF error.name = "ProviderError" /\ error.isRetryable /\ ~e.DISABLE_FALLBACK
  THEN tryFallback(provider, error, getDefaultProvider(e))
  ELSE Throw(error)

\* Caught with the fallback call started while the primary call is still running.
CaughtHedged(o, error, d) ==
  /\ caught' = error
  /\ IF d.threw
     THEN /\ calls' = [calls EXCEPT ![1].status = o]
          /\ response' = Failure(d.error)
          /\ pc' = "done"
     ELSE /\ calls' = Append(calls, Call(d.value, "generate"))
          /\ response' = NoResponse
          /\ pc' = "fallback"

\* The catch block applied to outcome o of the primary call, with decision d.
Caught(o, error, d) ==
  /\ caught' = error
  /\ IF d.threw
     THEN /\ calls' = [calls EXCEPT ![1].status = o]
          /\ response' = Failure(d.error)
          /\ pc' = "done"
     ELSE /\ calls' = Append([calls EXCEPT ![1].status = o],
                             Call(d.value, "generate"))
          /\ response' = NoResponse
          /\ pc' = "fallback"

\* catch: provider.generate rejected.
generateRejected ==
  /\ pc = "primary"
  /\ input.op = "generate"
  /\ \E o \in Outcomes(calls[1].provider, "generate") \ {"ok"} :
       Caught(o, BackendError(calls[1].provider, o),
              catchGenerate(env, calls[1].provider,
                            BackendError(calls[1].provider, o)))
  /\ UNCHANGED <<env, input, shellVars, auxVars>>

\* `Original provider a failed: ...` and `Fell back to b`.
FallbackWarnings(a, b) ==
  <<<<"original-provider-failed", a>>, <<"fell-back-to", b>>>>

\* fallback.generate resolved: its result, with the two fallback warnings first.
fallbackResolved ==
  /\ pc = "fallback"
  /\ "ok" \in Outcomes(calls[2].provider, "generate")
  /\ calls' = [calls EXCEPT ![2].status = "ok"]
  /\ response' = Success(calls[2].provider,
                         FallbackWarnings(calls[1].provider, calls[2].provider)
                         \o ResultWarnings(calls[2].provider))
  /\ pc' = "done"
  /\ UNCHANGED <<env, input, caught, shellVars, auxVars>>

\* fallbackRejected with one more attempt, at the primary provider, after the
\* fallback provider's error.
fallbackRejectedThenThird ==
  /\ pc = "fallback"
  /\ \E o \in Outcomes(calls[2].provider, "generate") \ {"ok"} :
       /\ calls' = Append([calls EXCEPT ![2].status = o],
                          Call(calls[1].provider, "generate"))
       /\ response' = Failure(BackendError(calls[2].provider, o))
  /\ pc' = "done"
  /\ UNCHANGED <<env, input, caught, shellVars, auxVars>>

\* fallback.generate rejected inside the catch block: its error leaves the handler.
fallbackRejected ==
  /\ pc = "fallback"
  /\ \E o \in Outcomes(calls[2].provider, "generate") \ {"ok"} :
       /\ calls' = [calls EXCEPT ![2].status = o]
       /\ response' = Failure(BackendError(calls[2].provider, o))
  /\ pc' = "done"
  /\ UNCHANGED <<env, input, caught, shellVars, auxVars>>

\* provider.edit resolved.
editResolved ==
  /\ pc = "primary"
  /\ input.op = "edit"
  /\ "ok" \in Outcomes(calls[1].provider, "edit")
  /\ calls' = [calls EXCEPT ![1].status = "ok"]
  /\ response' = Success(calls[1].provider, ResultWarnings(calls[1].provider))
  /\ pc' = "done"
  /\ UNCHANGED <<env, input, caught, shellVars, auxVars>>

\* provider.edit rejected: no try block, the error leaves the handler.
editRejected ==
  /\ pc = "primary"
  /\ input.op = "edit"
  /\ \E o \in Outcomes(calls[1].provider, "edit") \ {"ok"} :
       /\ calls' = [calls EXCEPT ![1].status = o]
       /\ response' = Failure(BackendError(calls[1].provider, o))
  /\ pc' = "done"
  /\ UNCHANGED <<env, input, caught, shellVars, auxVars>>

\* The answer is written; the next request can be taken.
respond ==
  /\ pc = "done"
  /\ pc' = "idle"
  /\ input' = NoInput
  /\ calls' = <<>>
  /\ caught' = NoError
  /\ response' = NoResponse
  /\ UNCHANGED <<env, shellVars, auxVars>>

NextOrch ==
  \/ handleGenerate
  \/ handleEdit
  \/ generateResolved
  \/ generateRejected
  \/ fallbackResolved
  \/ fallbackRejected
  \/ editResolved
  \/ editRejected
  \/ respond

SpecOrch == InitOrch /\ [][NextOrch]_vars

(***************************************************************************)
(* Properties of the orchestrator (SpecOrch).                              *)
(***************************************************************************)
\* The request names a provider, that provider is configured, and its call came
\* first and ended with outcome o.
TargetedCallEnded(o) ==
  /\ pc = "done"
  /\ input.provider \in env.credentials
  /\ Len(calls) >= 1
  /\ calls[1].provider = input.provider
  /\ calls[1].status = o

\* What the handler answers when the call of provider p ended with outcome o
\* and nothing is added to it.
AnswerOf(p, o) ==
  IF o = "ok" THEN Success(p, ResultWarnings(p)) ELSE Failure(BackendError(p, o))

\* C1: with fallback enabled and a second, different backend configured, a
\* generate request targeted at configured backend A whose call fails with a
\* retryable error is followed by a call to a configured backend B other than A,
\* and when that call succeeds the answer is B's result with the warnings that
\* name A's failure and the fallback to B.
C1_FallbackReachesOtherBackend ==
  ( /\ TargetedCallEnded("retryable")
    /\ input.op = "generate"
    /\ ~env.DISABLE_FALLBACK
    /\ env.credentials \ {input.provider} # {} )
  => /\ Len(calls) = 2
     /\ calls[2].provider \in env.credentials \ {input.provider}
     /\ calls[2].status = "ok" =>
          /\ response.status = "ok"
          /\ response.provider = calls[2].provider
          /\ SubSeq(response.warnings, 1, 2)
               = FallbackWarnings(input.provider, calls[2].provider)

\* C2: a request invokes at most two backend operations, and when there are two
\* the answer is the second one's result or error, whatever its retryable flag.
C2_AtMostTwoInvocations ==
  /\ Len(calls) <= 2
  /\ (pc = "done" /\ Len(calls) = 2) =>
       IF calls[2].status = "ok"
       THEN response = Success(calls[2].provider,
                               FallbackWarnings(calls[1].provider, calls[2].provider)
                               \o ResultWarnings(calls[2].provider))
       ELSE response = AnswerOf(calls[2].provider, calls[2].status)

C2_Witness ==
  /\ pc = "done"
  /\ Len(calls) = 2
  /\ calls[2].status = "retryable"
  /\ response.status = "error"

\* C3: when the primary call fails with an error not marked retryable, that
\* error is the answer and no other backend is invoked.
C3_NonRetryableSurfaces ==
  (Len(calls) >= 1 /\ calls[1].status = "nonretryable")
  => /\ Len(calls) = 1
     /\ pc = "done"
     /\ response = Failure(BackendError(calls[1].provider, "nonretryable"))

C3_Witness ==
  /\ TargetedCallEnded("nonretryable")
  /\ input.op = "generate"
  /\ ~env.DISABLE_FALLBACK
  /\ env.credentials \ {input.provider} # {}
  /\ response.error.provider = input.provider

\* C4: the primary call and the fallback call are never in flight together; the
\* fallback call exists only once the primary call has ended with a failure.
C4_FallbackAfterPrimaryFailed ==
  /\ Cardinality({i \in 1..Len(calls) : calls[i].status = "inflight"}) <= 1
  /\ Len(calls) >= 2 => calls[1].status \in {"retryable", "nonretryable"}

C4_Witness ==
  /\ pc = "fallback"
  /\ Len(calls) = 2
  /\ calls[1].status = "retryable"
  /\ calls[2].status = "inflight"

\* C5: with DISABLE_FALLBACK set, a retryable failure of the primary call is the
\* answer and no second backend is invoked.
C5_DisabledFallbackSurfaces ==
  env.DISABLE_FALLBACK
  => /\ Len(calls) <= 1
     /\ (Len(calls) = 1 /\ calls[1].status = "retryable") =>
          /\ pc = "done"
          /\ response = Failure(BackendError(calls[1].provider, "retryable"))

C5_Witness ==
  /\ TargetedCallEnded("retryable")
  /\ input.op = "generate"
  /\ env.DISABLE_FALLBACK
  /\ env.DEFAULT_PROVIDER \in env.credentials \ {input.provider}
  /\ response.status = "error"

\* C6: when the primary backend's edit fails with a retryable error, fallback is
\* not disabled and another edit-capable backend is configured, a second,
\* different backend is invoked once for the edit.
C6_EditFallsBack ==
  ( /\ TargetedCallEnded("retryable")
    /\ input.op = "edit"
    /\ ~env.DISABLE_FALLBACK
    /\ \E b \in env.credentials \ {input.provider} :
          getCapabilities(b).supportsEdit )
  => /\ Len(calls) = 2
     /\ calls[2].op = "edit"
     /\ calls[2].provider # calls[1].provider

\* The provider a generate request that names one is resolved to.
TargetOf(e, i) ==
  getProviderWithFallback(e, i.provider,
                          IF i.entry = "http" THEN undefined ELSE i.prompt)

Exceeds(i, provider) ==
  \/ ExceedsWidth(i, getCapabilities(provider))
  \/ ExceedsHeight(i, getCapabilities(provider))

\* C7: a generate request whose width or height is greater than the declared
\* maximum of the backend it targets is answered with a capability error and
\* that backend's generate is not invoked; the backend invoked first never has
\* a maximum below the requested size.
C7_CapabilityGate ==
  (pc # "idle" /\ input.op = "generate")
  => /\ Len(calls) >= 1 => ~Exceeds(input, calls[1].provider)
     /\ ( /\ ~IsAuto(input) \/ input.entry = "http"
          /\ ~TargetOf(env, input).threw
          /\ Exceeds(input, TargetOf(env, input).value) )
        => /\ pc = "done"
           /\ calls = <<>>
           /\ response.status = "error"
           /\ response.error.code \in {"width-exceeds-maximum", "height-exceeds-maximum"}
           /\ response.error.provider = TargetOf(env, input).value

C7_Witness ==
  /\ pc = "done"
  /\ input.op = "generate"
  /\ input.provider = "RECRAFT"
  /\ "RECRAFT" \in env.credentials
  /\ input.width = 3000
  /\ getCapabilities("RECRAFT").maxWidth = 2048
  /\ calls = <<>>
  /\ response.error.code = "width-exceeds-maximum"

(***************************************************************************)
(* Properties of the rate limiter (SpecRate).                              *)
(***************************************************************************)
\* C8: for one provider name, a check is rejected exactly when more than
\* MAX_REQUESTS_PER_WINDOW checks, itself included, were made since the window
\* opened and before its reset time: the first ten pass, every further one before
\* the reset time raises the retryable rate-limit error, and the first check at
\* or after the reset time opens a new window and passes.
C8_RateLimitBoundary ==
  lastCheck.name # undefined
  => /\ lastCheck.threw <=> window[lastCheck.name].checks > MAX_REQUESTS_PER_WINDOW
     /\ lastCheck.threw =>
          lastCheck.error = ProviderError("rate-limit-exceeded", lastCheck.name, TRUE)

C8_Witness ==
  /\ lastCheck.name = "BFL"
  /\ ~lastCheck.threw
  /\ lastCheck.time = RATE_LIMIT_WINDOW
  /\ window["BFL"].afterFull
  /\ window["BFL"].checks = 1
  /\ rateLimitMap["BFL"] = [count |-> 1, resetTime |-> 2 * RATE_LIMIT_WINDOW]

\* C9: whatever the interleaving of the requests, the count stored for a name
\* never exceeds MAX_REQUESTS_PER_WINDOW, and no more than that many checks of
\* one name are admitted inside one window.
C9_CountWithinCeiling ==
  \A n \in ProviderNames :
    /\ rateLimitMap[n].count <= MAX_REQUESTS_PER_WINDOW
    /\ window[n].admitted <= MAX_REQUESTS_PER_WINDOW

C9_Witness ==
  /\ rateLimitMap["FAL"].count = MAX_REQUESTS_PER_WINDOW
  /\ window["FAL"].admitted = MAX_REQUESTS_PER_WINDOW
  /\ lastCheck.name = "FAL"
  /\ ~lastCheck.threw
  /\ \A t \in Tasks : running[t] = "FAL"

\* C18: when mock is not allowed and the request does not name MOCK, MOCK is
\* never called for the request and the answer does not come from it; with no
\* real provider configured the request is answered with an error.
C18_NoMockInNormalOperation ==
  (pc # "idle" /\ ~env.allowMock /\ toUpperCase(input.provider) # "MOCK")
  => /\ \A i \in 1..Len(calls) : calls[i].provider # "MOCK"
     /\ response.provider # "MOCK"
     /\ (pc = "done" /\ env.credentials = {}) => response.status = "error"

\* The providers an error identifies: ProviderError carries the name of the
\* provider that threw it (providerName), and nothing else names a provider.
ErrorNames(error) == IF error.provider = "NONE" THEN {} ELSE {error.provider}

\* C19: when the primary provider and the fallback provider have both failed,
\* the error the caller gets names both of them.
C19_ErrorNamesBothBackends ==
  ( /\ pc = "done"
    /\ Len(calls) = 2
    /\ calls[1].status # "ok"
    /\ calls[2].status # "ok" )
  => /\ response.status = "error"
     /\ {calls[1].provider, calls[2].provider} \subseteq ErrorNames(response.error)

\* C20: a request that names no provider, made while DEFAULT_PROVIDER names a
\* configured provider, has that provider called first.
C20_DefaultProviderInvoked ==
  ( /\ pc # "idle"
    /\ input.provider \in {undefined, "auto"}
    /\ getProvider(env.DEFAULT_PROVIDER) # undefined
    /\ isConfigured(env, getProvider(env.DEFAULT_PROVIDER))
    /\ calls # <<>> )
  => calls[1].provider = getProvider(env.DEFAULT_PROVIDER)

\* The real providers other than BFL that are configured and support editing.
OtherEditProviders(e) ==
  {n \in e.credentials \ {"BFL"} : getCapabilities(n).supportsEdit}

\* C21: an automatic edit of a base image that is not near square, made while
\* an edit-capable provider other than BFL is configured, does not call BFL.
C21_BflExcludedForNonSquare ==
  ( /\ pc # "idle"
    /\ input.op = "edit"
    /\ IsAuto(input)
    /\ NotNearSquare(input.image)
    /\ OtherEditProviders(env) # {} )
  => \A i \in 1..Len(calls) : calls[i].provider # "BFL"

(***************************************************************************)
(* Properties of the response cache (SpecCache).                           *)
(***************************************************************************)
\* C10: for every provider method and request, a call that starts after an
\* identical call got its result from the backend returns that same result
\* without a request to the backend when less than CACHE_TTL has passed since,
\* and sends a request to the backend when CACHE_TTL or more has passed.
C10_CacheCorrectness ==
  ( /\ lastCall # NoCall
    /\ lastCall.before # NoOrigin
    /\ lastCall.startedAt >= lastCall.before.doneAt )
  => IF lastCall.startedAt - lastCall.before.doneAt < CACHE_TTL
     THEN /\ lastCall.outcome = "ok"
          /\ lastCall.fetches = 0
          /\ lastCall.result = lastCall.before.result
     ELSE lastCall.fetches >= 1

FailedGenerate ==
  /\ lastCall # NoCall
  /\ lastCall.op = "generate"
  /\ lastCall.outcome # "ok"

\* C11 as stated: a generate call that ends in failure leaves the response cache
\* as it was when the call was made.
C11_FailedCallLeavesCacheUnchanged ==
  FailedGenerate => lastCall.othersKept /\ lastCall.entryAfter = lastCall.entryBefore

\* C11: a generate call that ends in failure inserts or overwrites no cache
\* entry; the one change it can make is to remove the entry of its own key when
\* that entry had expired at the time of the call.
C11_FailedCallInsertsNothing ==
  FailedGenerate
  => /\ lastCall.othersKept
     /\ \/ lastCall.entryAfter = lastCall.entryBefore
        \/ /\ lastCall.entryAfter = NoEntry
           /\ lastCall.entryBefore # NoEntry
           /\ lastCall.startedAt - lastCall.entryBefore.timestamp >= CACHE_TTL

C11_Witness ==
  /\ FailedGenerate
  /\ lastCall.provider = "BFL"
  /\ lastCall.outcome = "retryable"
  /\ lastCall.fetches = MAX_RETRIES
  /\ lastCall.entryAfter = NoEntry
  /\ \E k \in CacheKeys : responseCache[k] # NoEntry

\* C17: a provider method whose request to the backend is under way was
\* counted by the rate limiter when it was called: the window of its provider
\* holds at least that call and was open at the time of the call.  (A call
\* the limiter refuses never gets that far.)
C17_LimiterConsultedBeforeRequest ==
  \A t \in CacheTasks :
    inflight[t] # NoCall
    => /\ rateLimitMap[inflight[t].provider].count >= 1
       /\ inflight[t].startedAt < rateLimitMap[inflight[t].provider].resetTime

(***************************************************************************)
(* Properties of executeWithRetry (SpecRetry).                             *)
(***************************************************************************)
\* The outcomes of the invocations of the run, in order.
InvocationsOf(events) ==
  [i \in 1..Len(SelectSeq(events, LAMBDA ev : ev.kind = "invoke")) |->
     SelectSeq(events, LAMBDA ev : ev.kind = "invoke")[i].outcome]

SleepsOf(events) == SelectSeq(events, LAMBDA ev : ev.kind = "sleep")

AllRetryable(outcomes) == \A i \in 1..Len(outcomes) : outcomes[i] = "retryable"

\* C12: a run whose invocations so far all failed with retryable errors, fewer
\* than the budget, goes on to the next invocation; when invocation k+1 succeeds
\* after k failures the run returns that value, having invoked the operation
\* exactly k+1 times.
C12_RetryThenSuccess ==
  /\ (retry.pc = "threw" /\ AllRetryable(InvocationsOf(retry.events)))
       => Len(InvocationsOf(retry.events)) = retry.retries
  /\ \A i \in 1..Len(InvocationsOf(retry.events)) :
       InvocationsOf(retry.events)[i] = "ok"
       => /\ i = Len(InvocationsOf(retry.events))
          /\ retry.pc = "returned"
          /\ retry.result = "success"
  /\ retry.pc = "returned"
       => /\ Len(InvocationsOf(retry.events)) \in 1..retry.retries
          /\ InvocationsOf(retry.events)[Len(InvocationsOf(retry.events))] = "ok"

C12_Witness ==
  /\ retry.pc = "returned"
  /\ retry.retries = MAX_RETRIES
  /\ InvocationsOf(retry.events) = <<"retryable", "retryable", "ok">>
  /\ retry.result = "success"

\* C13: an invocation that fails with a non-retryable error is the last thing
\* the run does: no sleep and no invocation follows, and the run throws that
\* same error.
C13_NonRetryableStopsRetry ==
  \A i \in 1..Len(retry.events) :
    (retry.events[i].kind = "invoke" /\ retry.events[i].outcome = "nonretryable")
    => /\ i = Len(retry.events)
       /\ retry.pc = "threw"
       /\ retry.error = FnError("nonretryable")

C13_Witness ==
  /\ retry.pc = "threw"
  /\ retry.retries = MAX_RETRIES
  /\ retry.events = <<Invoked("nonretryable")>>
  /\ retry.error = ProviderError("operation-failed", "TEST", FALSE)

(***************************************************************************)
(* Properties of the timers and the poll loops (SpecPoll).                 *)
(***************************************************************************)
StatusRequests(j) == SelectSeq(j.requests, LAMBDA r : r.kind = "status")

\* The answers before the last one.
Earlier(answers) == SubSeq(answers, 1, Len(answers) - 1)

AllPending(answers) == \A i \in 1..Len(answers) : answers[i] = "pending"

LastAnswer(j) == IF j.answers = <<>> THEN "none" ELSE j.answers[Len(j.answers)]

\* C14: when a generate call has exited, by return or by throw, none of the
\* timers it armed is still armed.
C14_TimersDisarmedAtExit == job.pc = "exited" => job.armedAtExit = {}

\* C15: a call that polls arms one deadline only, and every status request it
\* sends is given the signal of that deadline.
C15_OneDeadlineForAllPolls ==
  StatusRequests(job) # <<>>
  => /\ Len(job.timers) = 1
     /\ \A i \in 1..Len(StatusRequests(job)) :
          StatusRequests(job)[i].signal = job.controller

ConfidenceAbove(a, hundredths) ==
  a.base * (a.totalKeywords + a.matchedKeywords) > 2 * hundredths * a.totalKeywords

\* C22: the prompt "logo for a coffee shop with text" classifies to the logo or
\* the text use case with a confidence greater than 0.8.
C22_LogoPromptConfident ==
  (lastAnalysis.called /\ lastAnalysis.prompt = "logo for a coffee shop with text")
  => /\ lastAnalysis.result.useCase \in {"logo", "text-heavy"}
     /\ ConfidenceAbove(lastAnalysis.result, 80)

\* name is the first element of list that is in the array avail.
IsFirstAvailable(name, list, avail) ==
  \E i \in 1..Len(list) :
    /\ list[i] = name
    /\ InSeq(name, avail)
    /\ \A j \in 1..(i - 1) : ~InSeq(list[j], avail)

AnyAvailable(list, avail) == \E i \in 1..Len(list) : InSeq(list[i], avail)

\* What selectProvider returns for the use case u, as C23 has it.
ByUseCase(s, u) ==
  IF AnyAvailable(u.preferredProviders, s.availableProviders)
  THEN IsFirstAvailable(s.result, u.preferredProviders, s.availableProviders)
  ELSE IF AnyAvailable(u.fallbackProviders, s.availableProviders)
  THEN IsFirstAvailable(s.result, u.fallbackProviders, s.availableProviders)
  ELSE s.result = selectAnalysed(null, s.prompt, s.availableProviders)

\* C23: a selection that classified its prompt to a use case returns the first
\* available name of the use case's preferred list, else the first available
\* name of its fallback list, and what the generic heuristics give only when
\* neither list has an available name.
C23_UseCaseOrder ==
  (lastSelect.called /\ lastSelect.analysed /\ lastSelect.analysis # null)
  => ByUseCase(lastSelect, useCaseMapping[lastSelect.analysis.id])

C23_Witness ==
  /\ lastSelect.called
  /\ lastSelect.prompt = "logo for a coffee shop with text"
  /\ lastSelect.availableProviders = <<"OPENAI", "IDEOGRAM">>
  /\ lastSelect.analysis # null
  /\ lastSelect.analysis.useCase = "logo"
  /\ lastSelect.result = "IDEOGRAM"

\* C24: selectProvider called with a non-empty array of available providers
\* returns one of them, and returns nothing only when the array is empty.
C24_SelectedIsAvailable ==
  lastSelect.called
  => /\ Len(lastSelect.availableProviders) > 0
          => InSeq(lastSelect.result, lastSelect.availableProviders)
     /\ lastSelect.result = undefined => Len(lastSelect.availableProviders) = 0

C24_Witness ==
  /\ lastSelect.called
  /\ lastSelect.prompt = "sunset over hills"
  /\ lastSelect.availableProviders = <<"MOCK">>
  /\ lastSelect.result = "MOCK"

\* C25: every classification of a prompt returns what the first classification
\* of that prompt returned, use case and confidence alike, whatever was
\* classified in between and whatever the state of the keyword index.
C25_ClassificationIdempotent ==
  lastAnalysis.called => lastAnalysis.result = analyses[lastAnalysis.prompt]

C25_Witness ==
  /\ lastAnalysis.called
  /\ lastAnalysis.repeated
  /\ lastAnalysis.between
  /\ lastAnalysis.prompt = "quick draft of a dragon"
  /\ lastAnalysis.result # null
  /\ lastAnalysis.result.useCase = "quick-draft"
  /\ keywordIndex = IndexSize

\* The registered names that hold an instance.
Held == {n \in Range(RegistryNames) : providers[n] # 0}

\* C26: the registry constructs an instance on the first lookup of a name and
\* returns that same instance on every later lookup of the name in any letter
\* case; it never holds two instances for one name and never replaces or
\* removes an instance once stored.
C26_RegistryOneInstancePerName ==
  /\ \A n \in Range(RegistryNames) : providers[n] = firstStored[n]
  /\ \A n, o \in Held : n # o => providers[n] # providers[o]
  /\ Cardinality(Held) = instances
  /\ (lastLookup.called /\ hasClass(toUpperCase(lastLookup.name)))
       => /\ lastLookup.returned # 0
          /\ lastLookup.returned = firstStored[toUpperCase(lastLookup.name)]

C26_Witness ==
  /\ lastLookup.called
  /\ lastLookup.name = "openai"
  /\ ~lastLookup.constructed
  /\ lastLookup.returned = 1
  /\ instances = 4

\* C27: for every provider, isConfigured() is true exactly when its
\* credential is present and passes the format check of validateApiKey.
C27_ConfiguredIffKeyValid ==
  lastConfigured.called
  => (lastConfigured.result
        <=> validateApiKey(lastConfigured.key, lastConfigured.isTestEnv))

\* The error of a refused prompt: a ProviderError that is not retryable and
\* carries the name of the provider.
RefusedBy(outcome, name) ==
  /\ outcome.threw
  /\ outcome.error.name = "ProviderError"
  /\ ~outcome.error.isRetryable
  /\ outcome.error.provider = name

\* C28: validatePrompt rejects a prompt that is empty, whitespace-only or
\* longer than 4000 characters with a non-retryable error naming the provider,
\* and accepts every other prompt, one of exactly 4000 characters included.
C28_PromptValidation ==
  lastValidated.called
  => IF \/ Len(lastValidated.prompt) = 0
        \/ IsBlank(lastValidated.prompt)
        \/ Len(lastValidated.prompt) > 4000
     THEN RefusedBy(lastValidated.outcome, lastValidated.name)
     ELSE ~lastValidated.outcome.threw

C28_Witness ==
  /\ lastValidated.called
  /\ lastValidated.name = "IDEOGRAM"
  /\ Len(lastValidated.prompt) = 4000
  /\ ~lastValidated.outcome.threw

\* C29: no provider is ever invoked, as primary or as fallback, for generate
\* or for edit, with a requested width or height above its own declared
\* maximum.
C29_NoCallAboveMaximum ==
  \A k \in 1..Len(calls) : ~Exceeds(input, calls[k].provider)

\* The providers an auto-mode request chooses among.
Candidates(e, i) ==
  IF i.entry = "http" THEN getConfiguredProviders(e)
  ELSE IF i.op = "edit" THEN getConfiguredEditProviders(e)
  ELSE compatibleProviders(e, i)

\* C30: automatic selection uses MOCK only as a last resort: when a real
\* provider is among the candidates of an auto-mode request, the provider
\* selected, which is the one invoked first, is not MOCK.
C30_MockLastResort ==
  ( /\ pc # "idle"
    /\ IsAuto(input)
    /\ \E k \in 1..Len(Candidates(env, input)) : Candidates(env, input)[k] # "MOCK"
    /\ Len(calls) >= 1 )
  => calls[1].provider # "MOCK"

\* The warnings of the response name the provider.
WarningNames(provider) ==
  \E k \in 1..Len(response.warnings) :
     response.warnings[k][2] \in {provider, toUpperCase(provider)}

\* C31: whenever a request that names a provider is answered with a result
\* produced by another provider, the result carries a warning naming the
\* requested provider.
C31_SubstitutionWarned ==
  ( /\ pc = "done"
    /\ ~IsAuto(input)
    /\ response.status = "ok"
    /\ response.provider # toUpperCase(input.provider) )
  => WarningNames(input.provider)

\* C32: executeWithRetry invokes the operation again only after a failure
\* marked retryable; any other failure, a thrown value that is not a
\* ProviderError included, is the last thing the run does: no sleep and no
\* invocation follows it.
C32_OnlyRetryableRetried ==
  \A i \in 1..Len(retry.events) :
    (retry.events[i].kind = "invoke"
       /\ retry.events[i].outcome \in {"nonretryable", "other"})
    => i = Len(retry.events)

\* The events alternate: invocations at the odd places, sleeps at the even ones.
Alternates(events) ==
  \A i \in 1..Len(events) :
     events[i].kind = IF i % 2 = 1 THEN "invoke" ELSE "sleep"

\* C33: when every invocation fails with a retryable error, a run with a
\* budget of n >= 1 that has thrown has invoked the operation exactly n times
\* and slept exactly n-1 times, each sleep between two invocations and none
\* after the last; the error thrown is the one of the last invocation.
C33_BudgetExhausted ==
  /\ ( /\ retry.pc = "threw"
       /\ retry.retries >= 1
       /\ AllRetryable(InvocationsOf(retry.events)) )
     => /\ Len(InvocationsOf(retry.events)) = retry.retries
        /\ Len(SleepsOf(retry.events)) = retry.retries - 1
        /\ Alternates(retry.events)
        /\ retry.events[Len(retry.events)].kind = "invoke"
        /\ retry.error = FnError("retryable")
  /\ (retry.pc = "threw" /\ retry.retries >= 1)
     => /\ retry.events[Len(retry.events)].kind = "invoke"
        /\ retry.error = FnError(retry.events[Len(retry.events)].outcome)

C33_Witness ==
  /\ retry.pc = "threw"
  /\ retry.retries = 4
  /\ InvocationsOf(retry.events) = <<"retryable", "retryable", "retryable", "retryable">>
  /\ Len(SleepsOf(retry.events)) = 3

\* The number of the failed attempt (0, 1, ...) the sleep at place i follows.
AttemptBefore(events, i) ==
  Len(InvocationsOf(SubSeq(events, 1, i))) - 1

\* C40: after failed attempt number k that is not the last one, the sleep
\* lasts min(1000 * 2^k, 10000) milliseconds plus a random jitter: it is
\* longer than that by the jitter added.
C40_BackoffWithJitter ==
  \A i \in 1..Len(retry.events) :
    retry.events[i].kind = "sleep"
    => retry.events[i].delay
         > Min(1000 * Pow2(AttemptBefore(retry.events, i)), 10000)

\* C34: every network request issued inside a call is bound to a cancellation
\* signal armed by the call, so that no request can wait forever.
C34_EveryRequestBound ==
  \A i \in 1..Len(job.requests) : job.requests[i].signal # 0

\* The last call was a generate of a provider that uses limiter and cache.
CachedGenerate ==
  /\ lastCall # NoCall
  /\ lastCall.op = "generate"
  /\ checksRateLimit(lastCall.provider, "generate")
  /\ usesCache(lastCall.provider, "generate")

\* The window of the provider was open when the last call was made.
WindowOpen ==
  /\ lastCall.limitBefore # NoLimit
  /\ lastCall.startedAt < lastCall.limitBefore.resetTime

\* The result of the last call's request was in the cache, younger than the
\* time to live, when the call was made.
WasCached ==
  /\ lastCall.entryBefore # NoEntry
  /\ lastCall.startedAt - lastCall.entryBefore.timestamp < CACHE_TTL

\* C35: a generate call served from the cache still consumes one slot of its
\* provider's window, and an identical request made while the window is full
\* is rejected with the rate-limit error although its result is cached.
C35_CacheHitConsumesSlot ==
  CachedGenerate
  => /\ (lastCall.outcome = "ok" /\ lastCall.fetches = 0)
          => IF WindowOpen
             THEN /\ lastCall.limitAfter.count = lastCall.limitBefore.count + 1
                  /\ lastCall.limitAfter.resetTime = lastCall.limitBefore.resetTime
             ELSE lastCall.limitAfter =
                    [count |-> 1, resetTime |-> lastCall.startedAt + RATE_LIMIT_WINDOW]
     /\ (WasCached /\ WindowOpen
           /\ lastCall.limitBefore.count >= MAX_REQUESTS_PER_WINDOW)
          => /\ lastCall.outcome = "rate-limited"
             /\ lastCall.fetches = 0
             /\ lastCall.result = null

C35_Witness ==
  /\ CachedGenerate
  /\ lastCall.provider = "BFL"
  /\ WasCached
  /\ WindowOpen
  /\ lastCall.limitBefore.count = 10
  /\ lastCall.outcome = "rate-limited"

\* The two requests agree on prompt, model, width, height and seed.
SameFingerprintFields(r1, r2) ==
  /\ r1.prompt = r2.prompt
  /\ r1.model = r2.model
  /\ r1.width = r2.width
  /\ r1.height = r2.height
  /\ r1.seed = r2.seed

\* The requests of the model that agree with r on the fields of the fingerprint.
Alike(r) == {r2 \in AllRequests : SameFingerprintFields(r, r2)}

\* The generate call of request r2 to the last call's provider produced a
\* result less than the time to live before the last call was made.
ProducedLately(r2) ==
  /\ origin[<<lastCall.provider, "generate", r2>>] # NoOrigin
  /\ lastCall.startedAt >= origin[<<lastCall.provider, "generate", r2>>].doneAt
  /\ lastCall.startedAt - origin[<<lastCall.provider, "generate", r2>>].doneAt < CACHE_TTL

AfterInsertion == Present(lastInsert.before) \cup {lastInsert.key}

\* The keys the last insertion removed.
Removed == {k \in Present(lastInsert.before) \ {lastInsert.key} : store[k] = NoEntry}

\* C37: inserting into the cache never removes an entry younger than the time
\* to live, and removes expired entries only when the map holds more than 100
\* entries after the insertion; every other entry is left as it was and the
\* inserted one carries the time of the insertion.
C37_SweepOnlyAboveCeiling ==
  lastInsert.called
  => /\ store[lastInsert.key] = [result |-> SweepResult, timestamp |-> lastInsert.at]
     /\ \A k \in Removed :
          /\ lastInsert.at - lastInsert.before[k].timestamp >= CACHE_TTL
          /\ Cardinality(AfterInsertion) > 100
     /\ \A k \in SweepKeys \ (Removed \cup {lastInsert.key}) :
          store[k] = lastInsert.before[k]

\* More than 100 unexpired entries after an insertion.
C37_Witness ==
  /\ lastInsert.called
  /\ Cardinality(Present(store)) > 100
  /\ \A k \in Present(store) : clock - store[k].timestamp < CACHE_TTL

\* C38: when a polled job reports a failed state, the provider raises an
\* error that is marked retryable.
C38_FailedJobRetryable ==
  ( /\ job.pc = "exited"
    /\ job.answers # <<>>
    /\ job.answers[Len(job.answers)] = "failed" )
  => /\ job.threw
     /\ job.error.name = "ProviderError"
     /\ job.error.isRetryable

\* C39: every provider whose capabilities declare edit support implements
\* edit, so an edit call to a provider listed by getConfiguredEditProviders is
\* never answered with the error of a provider that does not support editing.
C39_EditSupportImplemented ==
  \A k \in 1..Len(calls) :
    ( /\ calls[k].op = "edit"
      /\ InSeq(calls[k].provider, getConfiguredEditProviders(env)) )
    => implementsEdit(calls[k].provider)
====
